------------------------------ MODULE Spec2Model ------------------------------
(***************************************************************************)
(* Pool discovery and swap routing engine of the Uniswap-V3 front end.     *)
(*                                                                         *)
(* The module holds one state machine per component:                       *)
(*   SpecEnum   the pair/fee enumerator of the two discovery routes        *)
(*   SpecProbe  multicallChunked, the batched probe engine                 *)
(*   SpecDisc   the buffered discovery route  (GET /api/pools)             *)
(*   SpecStream the streaming discovery route (GET /api/pools/stream)      *)
(*   SpecPool   sortTokens / getPoolAddress / findPool                     *)
(*   SpecRoute  route selection of the swap card (findRoute)               *)
(* Every specification leaves the variables of the other components at     *)
(* their idle values.                                                      *)
(*                                                                         *)
(* Addresses.  An address is a pair <<id, c>>: id is the 20-byte value     *)
(* (ids are ordered as the lower-cased hex strings are), c is the way the  *)
(* hex digits are cased in the string (0 = all lower case).  Two strings   *)
(* are === only when both components agree.                                *)
(***************************************************************************)
EXTENDS Integers, Sequences, FiniteSets, TLC

VARIABLES
  \* --- enumerator (SpecEnum)
  eList,      \* the token list of the chain (addresses as listed)
  eRoute,     \* which route enumerates: "buffered" | "stream"
  eCalls,     \* the getPool calls generated, in order
  ePc,        \* "start" | "done"
  \* --- probe engine (SpecProbe)
  pCalls,     \* contracts: the input list of calls
  pChunk,     \* chunkSize
  pHasMc,     \* client.chain.contracts.multicall3.address is configured
  pFail,      \* the calls whose chain read fails
  pI,         \* loop variable i (0-based)
  pRes,       \* res of the current chunk
  pOut,       \* out
  pPc,        \* "loop" | "direct" (awaiting Promise.all) | "done" | "threw"
  pSettled,   \* position of the slice -> state of its per-call promise
  pSrc,       \* ghost: for every entry of out, how it was obtained
  pOrder,     \* ghost: positions of the current slice in the order they settled
  pIssued,    \* ghost: number of per-call reads issued by the direct path
  pLog,       \* ghost: the reads issued and settled and the joins, in order
  \* --- pool lookup (SpecPool)
  qFn,        \* the function called: "getPoolAddress" | "findPool"
  qA, qB,     \* its arguments a, b
  qFee,       \* its argument fee
  qSorted,    \* what sortTokens returned inside the call
  qReads,     \* the chain reads issued by the call, in order
  qPc,        \* "start" | "reading" | "done"
  qResult,    \* the outcome of the call
  \* --- buffered discovery (SpecDisc)
  dList,      \* the token list of the chain
  dHasMc,     \* a multicall3 address is configured (route.ts line 184)
  dPools,     \* chain: the pool keys <<t0, t1, fee>> for which a pool exists
  dFailGet,   \* chain: the getPool calls (keys) whose read rejects
  dFailState, \* chain: the state reads <<pool, functionName>> that reject
  dPc,        \* "start" | "afterFirst" | "afterFallback" | "done"
  dPolicy,    \* ghost: what the aggregated backend did in the two probes
  dRes,       \* ghost: the results the found entries were collected from
  dFound,     \* found
  dFirstFound,\* ghost: found after the first existence pass
  dFallback,  \* ghost: the call lists of the fallback scans run, in order
  dStateCalls,\* ghost: the state calls issued
  dAgg,       \* ghost: number of chunks handed to safeMulticall so far
  dResponse,  \* the response of GET
  \* --- streaming discovery (SpecStream)
  sList,      \* the token list of the chain
  sPools,     \* chain: the pool keys <<t0, t1, fee>> for which a pool exists
  sFailGet,   \* chain: the getPool calls (keys) whose read rejects
  sFailState, \* chain: the state reads <<pool, functionName>> that reject
  sPc,        \* "start" | "existence" | "state" (the await reached) | "done"
  sB,         \* number of the batch being processed (1-based)
  sCalls,     \* calls of the batch
  sResults,   \* results of the batch
  sIdx,       \* idx, the call whose pool is being read (0-based)
  sEmitted,   \* emitted
  sLines,     \* the lines enqueued on the controller, in order
  sClosed,    \* controller.close() was called
  sLog,       \* ghost: the reads issued and records emitted, in order
  \* --- route selection of the swap card (SpecRoute)
  rTokenIn,   \* tokenIn (NoToken: undefined)
  rTokenOut,  \* tokenOut
  rWeth,      \* wethAddress
  rClient,    \* publicClient is defined
  rChain,     \* chain: token pair -> fee -> what the reads of that pool do
  rFee,       \* fee
  rFeeLocked, \* feeLockedFromUrl.current
  rRoute,     \* route
  rPoolErr,   \* poolErr
  rRouting,   \* routing
  rStatus,    \* status
  rRuns,      \* the findRoute runs in flight, oldest first
  rLast,      \* ghost: the run that returned last
  rBudget,    \* input changes still explored
  rPc,        \* "mount" (before the first effect) | "live"
  \* --- quoting (SpecQuote): one run of the effect of useQuote
  uClient,    \* usePublicClient() is defined
  uTokenIn,   \* tokenIn passed to useQuote (effectiveTokenIn)
  uTokenOut,  \* tokenOut passed to useQuote (effectiveTokenOut)
  uAmount,    \* amountInHuman, the text of the amount field
  uFee,       \* fee
  uDecIn,     \* decIn
  uPath,      \* route of the swap card (pathTokens, pathFees)
  uChain,     \* chain: the pools and what the quoter does
  uAmountOut, \* amountOut
  uLoading,   \* loading
  uError,     \* error
  uReads,     \* ghost: the chain reads issued by the run, in order
  uPc,        \* "start" | "pool" | "quoter" (the await reached) | "done"
  \* --- slippage (SpecSlip): the slippage control and minOut of useQuote
  vSlippageBps, \* slippageBps of the swap card, a number of JavaScript
  vAmountOut,   \* amountOut of useQuote
  vMinOut,      \* what the computation of minOut gave at the last render
  vEdits,       \* ghost: edits of the slippage field so far
  \* --- ticks of a new position (SpecTicks): the pool effect of the add-liquidity card
  aCard,        \* which add-liquidity card: "fullRange" (line 72) | "preset" (line 500)
  aPool,        \* what the pool lookup finds: "found" | "absent" | "fails"
  aSpacing,     \* tickSpacing of the pool
  aTickLower,   \* tickLower
  aTickUpper,   \* tickUpper
  aPoolErr,     \* poolErr
  aPc,          \* "start" | "done"
  \* --- result extractors (SpecUnwrap): unwrapAddress and its caller
  xObj,         \* the result handed to unwrapAddress
  xOut,         \* what unwrapAddress returned
  xFound,       \* the found entries the caller pushed for the result
  xPc,          \* "start" | "done"
  \* --- adding liquidity (SpecAdd): the ticks of a card and its onAdd
  mCard,        \* "fullRange" | "preset": which of the two cards
  mAddress,     \* an account is connected
  mWalletClient,\* the wallet client of the account is there
  mPool,        \* the chain: [found, spacing] of the pool of the pair and fee
  mPoolAddress, \* state poolAddress: null or "pool"
  mTickSpacing, \* state tickSpacing (preset card): null or a number
  mTickLower,   \* state tickLower: null or a number
  mTickUpper,   \* state tickUpper: null or a number
  mSource,      \* how the ticks were produced: "none" | "full" | "percent" | "manual"
  mSent,        \* the transactions sent to the wallet, in order
  mTxErr,       \* state txErr: null or the message
  mPc,          \* "detect" | "ready" | "added"
  \* --- the runs of the effect of useQuote (SpecHook)
  hInputs,      \* the inputs of the current render: client, tokens, amount, fee
  hRuns,        \* the runs of the effect so far: [inputs, active, pending]
  hAmountOut,   \* amountOut
  hError,       \* error
  hLoading,     \* loading
  hOutOf,       \* ghost: the run that set amountOut (0: none)
  hErrOf,       \* ghost: the run that set error (0: none)
  hPc,          \* "mount" (before the first effect) | "live"
  \* --- the allowance checks of the swap card (SpecAllow)
  kConnected,   \* publicClient and address are defined
  kTokenIn,     \* tokenIn (NoToken: undefined)
  kAmountInWei, \* amountInWei
  kChain,       \* chain: token -> [erc20, permit2] allowances of the account
  kChecks,      \* the checkAllowance calls awaiting their reads: [tokenIn, amountInWei]
  kHasAllowance,     \* hasAllowance
  kCheckingAllowance,\* checkingAllowance
  kStatus,      \* status
  kSwaps,       \* ghost: the amounts onSwap went on to swap, in order
  kBudget,      \* input changes still explored
  kPc           \* "mount" (before the first effect) | "live"

eVars == <<eList, eRoute, eCalls, ePc>>
pVars == <<pCalls, pChunk, pHasMc, pFail, pI, pRes, pOut, pPc, pSettled, pSrc, pOrder, pIssued,
           pLog>>
qVars == <<qFn, qA, qB, qFee, qSorted, qReads, qPc, qResult>>
dVars == <<dList, dHasMc, dPools, dFailGet, dFailState, dPc, dPolicy, dRes, dFound,
           dFirstFound, dFallback, dStateCalls, dAgg, dResponse>>
sVars == <<sList, sPools, sFailGet, sFailState, sPc, sB, sCalls, sResults, sIdx, sEmitted,
           sLines, sClosed, sLog>>
rVars == <<rTokenIn, rTokenOut, rWeth, rClient, rChain, rFee, rFeeLocked, rRoute, rPoolErr,
           rRouting, rStatus, rRuns, rLast, rBudget, rPc>>
uVars == <<uClient, uTokenIn, uTokenOut, uAmount, uFee, uDecIn, uPath, uChain, uAmountOut,
           uLoading, uError, uReads, uPc>>
vVars == <<vSlippageBps, vAmountOut, vMinOut, vEdits>>
aVars == <<aCard, aPool, aSpacing, aTickLower, aTickUpper, aPoolErr, aPc>>
xVars == <<xObj, xOut, xFound, xPc>>
mVars == <<mCard, mAddress, mWalletClient, mPool, mPoolAddress, mTickSpacing, mTickLower,
           mTickUpper, mSource, mSent, mTxErr, mPc>>
hVars == <<hInputs, hRuns, hAmountOut, hError, hLoading, hOutOf, hErrOf, hPc>>
kVars == <<kConnected, kTokenIn, kAmountInWei, kChain, kChecks, kHasAllowance,
           kCheckingAllowance, kStatus, kSwaps, kBudget, kPc>>
vars == <<eVars, pVars, qVars, dVars, sVars, rVars, uVars, vVars, aVars, xVars, mVars, hVars, kVars>>
\* the variables of the other components, left alone by a component's actions
eOthers == <<pVars, qVars, dVars, sVars, rVars, uVars, vVars, aVars, xVars, mVars, hVars, kVars>>
pOthers == <<eVars, qVars, dVars, sVars, rVars, uVars, vVars, aVars, xVars, mVars, hVars, kVars>>
qOthers == <<eVars, pVars, dVars, sVars, rVars, uVars, vVars, aVars, xVars, mVars, hVars, kVars>>
dOthers == <<eVars, pVars, qVars, sVars, rVars, uVars, vVars, aVars, xVars, mVars, hVars, kVars>>
sOthers == <<eVars, pVars, qVars, dVars, rVars, uVars, vVars, aVars, xVars, mVars, hVars, kVars>>
rOthers == <<eVars, pVars, qVars, dVars, sVars, uVars, vVars, aVars, xVars, mVars, hVars, kVars>>
uOthers == <<eVars, pVars, qVars, dVars, sVars, rVars, vVars, aVars, xVars, mVars, hVars, kVars>>
vOthers == <<eVars, pVars, qVars, dVars, sVars, rVars, uVars, aVars, xVars, mVars, hVars, kVars>>
aOthers == <<eVars, pVars, qVars, dVars, sVars, rVars, uVars, vVars, xVars, mVars, hVars, kVars>>
xOthers == <<eVars, pVars, qVars, dVars, sVars, rVars, uVars, vVars, aVars, mVars, hVars, kVars>>
mOthers == <<eVars, pVars, qVars, dVars, sVars, rVars, uVars, vVars, aVars, xVars, hVars, kVars>>
hOthers == <<eVars, pVars, qVars, dVars, sVars, rVars, uVars, vVars, aVars, xVars, mVars, kVars>>
kOthers == <<eVars, pVars, qVars, dVars, sVars, rVars, uVars, vVars, aVars, xVars, mVars, hVars>>

Min(a, b) == IF a < b THEN a ELSE b
Max(a, b) == IF a > b THEN a ELSE b

\* ---------------------------------------------------------------- bounds
MaxId == 3          \* small token lists draw their addresses from ids 1..MaxId
MaxListLen == 3     \* small token lists have at most this many entries
BigLen == 121       \* length of the generated long token lists

\* ------------------------------------------------------------- addresses
toLowerCase(a) == <<a[1], 0>>
\* a < b on lower-cased hex strings
StrLess(a, b) == a[1] < b[1]

ZeroAddress == <<0, 0>>
SmallAddrs == (1..MaxId) \X {0, 1}
SeqsUpTo(S, n) == UNION {[1..m -> S] : m \in 0..n}

\* ------------------------------------------ idle values of the components
eIdle == eList = <<>> /\ eRoute = "buffered" /\ eCalls = <<>> /\ ePc = "idle"
pIdle ==
  /\ pCalls = <<>> /\ pChunk = 1 /\ pHasMc = FALSE /\ pFail = {} /\ pI = 0
  /\ pRes = <<>> /\ pOut = <<>> /\ pPc = "idle"
  /\ pSettled = <<>> /\ pSrc = <<>> /\ pOrder = <<>> /\ pIssued = 0 /\ pLog = <<>>
qIdle ==
  /\ qFn = "findPool" /\ qA = ZeroAddress /\ qB = ZeroAddress /\ qFee = 0
  /\ qSorted = [threw |-> FALSE] /\ qReads = <<>> /\ qPc = "idle" /\ qResult = [kind |-> "none"]
dIdle ==
  /\ dList = <<>> /\ dHasMc = FALSE /\ dPools = {} /\ dFailGet = {} /\ dFailState = {}
  /\ dPc = "idle" /\ dPolicy = <<>> /\ dRes = <<>> /\ dFound = <<>> /\ dFirstFound = <<>>
  /\ dFallback = <<>> /\ dStateCalls = <<>> /\ dAgg = 0 /\ dResponse = [kind |-> "none"]
sIdle ==
  /\ sList = <<>> /\ sPools = {} /\ sFailGet = {} /\ sFailState = {}
  /\ sPc = "idle" /\ sB = 0 /\ sCalls = <<>> /\ sResults = <<>> /\ sIdx = 0 /\ sEmitted = 0
  /\ sLines = <<>> /\ sClosed = FALSE /\ sLog = <<>>
rIdle ==
  /\ rTokenIn = ZeroAddress /\ rTokenOut = ZeroAddress /\ rWeth = ZeroAddress
  /\ rClient = FALSE /\ rChain = <<>> /\ rFee = 0 /\ rFeeLocked = FALSE
  /\ rRoute = [t |-> "null"] /\ rPoolErr = [t |-> "null"] /\ rRouting = FALSE
  /\ rStatus = [t |-> "null"] /\ rRuns = <<>> /\ rLast = [ran |-> FALSE]
  /\ rBudget = 0 /\ rPc = "idle"
uIdle ==
  /\ uClient = FALSE /\ uTokenIn = ZeroAddress /\ uTokenOut = ZeroAddress
  /\ uAmount = [kind |-> "empty"] /\ uFee = 0 /\ uDecIn = 0 /\ uPath = [t |-> "null"]
  /\ uChain = <<>> /\ uAmountOut = [t |-> "null"] /\ uLoading = FALSE
  /\ uError = [t |-> "null"] /\ uReads = <<>> /\ uPc = "idle"
vIdle ==
  /\ vSlippageBps = [kind |-> "fin", num |-> 0, den |-> 1] /\ vAmountOut = [t |-> "null"]
  /\ vMinOut = [ok |-> FALSE] /\ vEdits = 0
aIdle ==
  /\ aCard = "none" /\ aPool = "absent" /\ aSpacing = 0 /\ aTickLower = [t |-> "null"]
  /\ aTickUpper = [t |-> "null"] /\ aPoolErr = [t |-> "null"] /\ aPc = "idle"
xIdle ==
  /\ xObj = [t |-> "null"] /\ xOut = [t |-> "null"] /\ xFound = <<>> /\ xPc = "idle"
mIdle ==
  /\ mCard = "none" /\ mAddress = FALSE /\ mWalletClient = FALSE
  /\ mPool = [found |-> FALSE, spacing |-> 0] /\ mPoolAddress = [t |-> "null"]
  /\ mTickSpacing = [t |-> "null"] /\ mTickLower = [t |-> "null"]
  /\ mTickUpper = [t |-> "null"] /\ mSource = "none" /\ mSent = <<>>
  /\ mTxErr = [t |-> "null"] /\ mPc = "idle"
hIdle ==
  /\ hInputs = [t |-> "null"] /\ hRuns = <<>> /\ hAmountOut = [t |-> "null"]
  /\ hError = [t |-> "null"] /\ hLoading = FALSE /\ hOutOf = 0 /\ hErrOf = 0
  /\ hPc = "idle"
kIdle ==
  /\ kConnected = FALSE /\ kTokenIn = <<0, 2>> /\ kAmountInWei = 0 /\ kChain = <<>>
  /\ kChecks = <<>> /\ kHasAllowance = FALSE /\ kCheckingAllowance = FALSE
  /\ kStatus = [t |-> "null"] /\ kSwaps = <<>> /\ kBudget = 0 /\ kPc = "idle"

\* Array.prototype.slice(from, to) on a sequence (0-based, end exclusive)
slice(s, from, to) ==
  IF from >= Min(to, Len(s)) THEN <<>> ELSE SubSeq(s, from + 1, Min(to, Len(s)))

\* Concatenation of the sequences rows[lo..hi], in order (the body of a nested
\* loop that pushes row after row; split in halves to keep the evaluation flat)
RECURSIVE FlattenRange(_, _, _)
FlattenRange(rows, lo, hi) ==
  IF lo > hi THEN <<>>
  ELSE IF lo = hi THEN rows[lo]
  ELSE FlattenRange(rows, lo, (lo + hi) \div 2) \o FlattenRange(rows, ((lo + hi) \div 2) + 1, hi)
Flatten(rows) == FlattenRange(rows, 1, Len(rows))

\* [...new Set(xs)]: a Set keeps its values in order of first insertion
RECURSIVE SetSpreadRange(_, _, _)
SetSpreadRange(xs, lo, hi) ==
  IF lo > hi THEN <<>>
  ELSE IF lo = hi THEN <<xs[lo]>>
  ELSE LET l == SetSpreadRange(xs, lo, (lo + hi) \div 2)
           r == SetSpreadRange(xs, ((lo + hi) \div 2) + 1, hi)
           Fresh(x) == \A j \in 1..Len(l) : l[j] # x
       IN  l \o SelectSeq(r, Fresh)
SetSpread(xs) == SetSpreadRange(xs, 1, Len(xs))

\* ------------------------------------------------------------ enumerator
FEES == <<100, 500, 3000, 10000>>
MAX_TOKENS == 120
MAX_PAIRS == 4000
STREAM_BATCH == 50

listCapped(list) == slice(list, 0, MAX_TOKENS)
addrsOf(list) == SetSpread([k \in 1..Len(listCapped(list)) |-> toLowerCase(listCapped(list)[k])])

\* (mutant of pairsOf: the inner loop starts at j = i instead of j = i + 1)
pairsOf_selfPairs(addrs) ==
  Flatten([i \in 1..Len(addrs) |->
             [j \in 1..(Len(addrs) - i + 1) |-> <<addrs[i], addrs[i + j - 1]>>]])

\* for (i = 0..) for (j = i+1..) pairs.push([addrs[i], addrs[j]])
pairsOf(addrs) ==
  Flatten([i \in 1..Len(addrs) |->
             [j \in 1..(Len(addrs) - i) |-> <<addrs[i], addrs[i + j]>>]])

pairsCapped(list) == slice(pairsOf(addrsOf(list)), 0, MAX_PAIRS)

\* const [t0, t1] = a.toLowerCase() < b.toLowerCase() ? [a, b] : [b, a]
orderPair(a, b) == IF StrLess(toLowerCase(a), toLowerCase(b)) THEN <<a, b>> ELSE <<b, a>>

getPoolCall(a, b, fee) ==
  [address |-> "factory", functionName |-> "getPool",
   args |-> <<orderPair(a, b)[1], orderPair(a, b)[2], fee>>]

\* for (const [a, b] of pairs) for (const fee of fees) calls.push(...)
callsFor(pairs, fees) ==
  Flatten([p \in 1..Len(pairs) |->
             [f \in 1..Len(fees) |-> getPoolCall(pairs[p][1], pairs[p][2], fees[f])]])

\* route.ts: one call list over all capped pairs
bufferedCalls(list) == callsFor(pairsCapped(list), FEES)

\* chunk(arr, n): the consecutive slices arr.slice(i, i + n), i = 0, n, 2n, ...
chunk(arr, n) ==
  [b \in 1..((Len(arr) + n - 1) \div n) |-> slice(arr, (b - 1) * n, b * n)]

\* stream/route.ts: the calls of each batch of 50 pairs, batch after batch
streamCalls(list) ==
  Flatten([b \in 1..Len(chunk(pairsCapped(list), STREAM_BATCH)) |->
             callsFor(chunk(pairsCapped(list), STREAM_BATCH)[b], FEES)])

\* ----------------------------------------------------- values and chain
\* The outcome of client.readContract(call): [ok |-> TRUE, value |-> v] (the
\* promise fulfils with v) or [ok |-> FALSE] (it rejects).
Ok(v) == [ok |-> TRUE, value |-> v]
Throws == [ok |-> FALSE]

\* the address of the pool of (token0, token1, fee), as the client returns it
\* (check-summed, mixed case); pool ids lie above every token id
PoolAddr(t0, t1, fee) == <<1000000 * t0[1] + 1000 * t1[1] + (fee \div 100), 1>>
PoolFee(pool) == (pool[1] % 1000) * 100

\* JavaScript values as they come back from the client
Str(a) == [t |-> "string", len |-> 42, v |-> a]
BigIntV(n) == [t |-> "bigint", v |-> n]
Num(n) == [t |-> "number", v |-> n]
Arr(xs) == [t |-> "array", v |-> xs]
Null == [t |-> "null"]
Undefined == [t |-> "undefined"]
\* String(x) of a bigint, Number(x); x[i] (0-based) of a value
StringOf(x) == IF x.t = "bigint" THEN [t |-> "decimal", v |-> x.v] ELSE [t |-> "text", of |-> x.t]
NumberOf(x) == IF x.t \in {"bigint", "number"} THEN Num(x.v) ELSE [t |-> "NaN"]
At(x, i) == IF x.t = "array" /\ i + 1 <= Len(x.v) THEN x.v[i + 1] ELSE Undefined
Truthy(x) ==
  /\ x.t \notin {"null", "undefined", "NaN"}
  /\ ~(x.t \in {"bigint", "number"} /\ x.v = 0)
\* arr[k] (1-based here), undefined past the end
Elem(arr, k) == IF k >= 1 /\ k <= Len(arr) THEN arr[k] ELSE Undefined

\* Pool state the chain holds, a function of the pool: a pool of the 0.01%
\* tier holds no liquidity, tick spacings are those of the protocol
SqrtOf(pool) == pool[1] + 7
TickOf(pool) == (pool[1] % 1000) - 50
LiqOf(pool) == IF PoolFee(pool) = 100 THEN 0 ELSE pool[1] + 1
SpacingOf(pool) ==
  IF PoolFee(pool) = 100 THEN 1 ELSE IF PoolFee(pool) = 500 THEN 10
  ELSE IF PoolFee(pool) = 3000 THEN 60 ELSE 200

stateCall(pool, fn) == [address |-> pool, functionName |-> fn, args |-> <<>>]

\* what client.readContract(c) does on a chain with the given pools and failing reads
chainOutcome(pools, failGet, failState, c) ==
  IF c.functionName = "getPool"
  THEN IF <<c.args[1][1], c.args[2][1], c.args[3]>> \in failGet THEN Throws
       ELSE IF <<c.args[1][1], c.args[2][1], c.args[3]>> \in pools
            THEN Ok(Str(PoolAddr(c.args[1], c.args[2], c.args[3])))
            ELSE Ok(Str(ZeroAddress))
  ELSE IF <<c.address[1], c.functionName>> \in failState THEN Throws
  ELSE IF c.functionName = "slot0"
       THEN Ok(Arr(<<BigIntV(SqrtOf(c.address)), Num(TickOf(c.address))>>))
  ELSE IF c.functionName = "liquidity" THEN Ok(BigIntV(LiqOf(c.address)))
  ELSE Ok(Num(SpacingOf(c.address)))
\* A chain is given by its pools and failing reads, or (for abstract calls) by
\* the table of its outcomes
chainFor(pools, failGet, failState) ==
  [kind |-> "pools", pools |-> pools, failGet |-> failGet, failState |-> failState]
tableChain(tbl) == [kind |-> "table", tbl |-> tbl]

\* What the reads of one pool do: the pool may not exist (getPool returns the
\* zero address), getPool may fail, the liquidity read may fail, or the pool
\* holds the given liquidity
Absent == [exists |-> FALSE, getOk |-> TRUE, liqOk |-> TRUE, liq |-> 0]
GetPoolFails == [exists |-> TRUE, getOk |-> FALSE, liqOk |-> TRUE, liq |-> 1]
LiquidityFails == [exists |-> TRUE, getOk |-> TRUE, liqOk |-> FALSE, liq |-> 1]
Liquid(n) == [exists |-> TRUE, getOk |-> TRUE, liqOk |-> TRUE, liq |-> n]
\* (mutant of poolEntry: the factory holds a pool of a token with itself)
poolEntry_selfPools(tbl, x, y, fee) ==
  IF x = y THEN Liquid(1)
  ELSE IF <<Min(x, y), Max(x, y)>> \in DOMAIN tbl /\ fee \in DOMAIN tbl[<<Min(x, y), Max(x, y)>>]
  THEN tbl[<<Min(x, y), Max(x, y)>>][fee]
  ELSE Absent

\* the entry of the pool of the tokens with ids x, y at the fee; the factory
\* creates no pool of a token with itself
poolEntry(tbl, x, y, fee) ==
  IF <<Min(x, y), Max(x, y)>> \in DOMAIN tbl /\ fee \in DOMAIN tbl[<<Min(x, y), Max(x, y)>>]
  THEN tbl[<<Min(x, y), Max(x, y)>>][fee]
  ELSE Absent
\* what client.readContract(c) does on a chain given by such a table
routeOutcome(tbl, c) ==
  IF c.functionName = "getPool"
  THEN LET e == poolEntry(tbl, c.args[1][1], c.args[2][1], c.args[3]) IN
       IF ~e.getOk THEN Throws
       ELSE IF e.exists THEN Ok(Str(PoolAddr(c.args[1], c.args[2], c.args[3])))
       ELSE Ok(Str(ZeroAddress))
  ELSE LET e == poolEntry(tbl, c.address[1] \div 1000000, (c.address[1] \div 1000) % 1000,
                          PoolFee(c.address)) IN
       IF ~e.liqOk THEN Throws ELSE Ok(BigIntV(e.liq))

readContract(chain, c) ==
  IF chain.kind = "table" THEN chain.tbl[c]
  ELSE IF chain.kind = "routes" THEN routeOutcome(chain.tbl, c)
  ELSE chainOutcome(chain.pools, chain.failGet, chain.failState, c)

\* ---------------------------------------------------------- probe engine

Success(v) == [status |-> "success", result |-> v]
Failure == [status |-> "failure"]

\* (mutant of perCallRead: the .catch handler is missing, the rejection escapes)
perCallRead_noCatch(chain, c) ==
  IF readContract(chain, c).ok
  THEN [state |-> "fulfilled", value |-> Success(readContract(chain, c).value)]
  ELSE [state |-> "rejected"]

\* client.readContract(c).then(result => ({status:'success', result}))
\*                       .catch(() => ({status:'failure'}))
perCallRead(chain, c) ==
  IF readContract(chain, c).ok
  THEN [state |-> "fulfilled", value |-> Success(readContract(chain, c).value)]
  ELSE [state |-> "fulfilled", value |-> Failure]

PendingPromise == [state |-> "pending"]

\* (mutant of PromiseAll: the promise is fulfilled without waiting for the
\* inputs that are still pending)
PromiseAll_noWait(ps) ==
  IF \E k \in 1..Len(ps) : ps[k].state = "rejected" THEN [state |-> "rejected"]
  ELSE [state |-> "fulfilled",
        value |-> [k \in 1..Len(ps) |->
                     IF ps[k].state = "pending" THEN [status |-> "failure"] ELSE ps[k].value]]

\* Promise.all over promises in the given states: rejected as soon as one input
\* is rejected, fulfilled (values in input order) once every input is fulfilled
PromiseAll(ps) ==
  IF \E k \in 1..Len(ps) : ps[k].state = "rejected" THEN [state |-> "rejected"]
  ELSE IF \E k \in 1..Len(ps) : ps[k].state = "pending" THEN PendingPromise
  ELSE [state |-> "fulfilled", value |-> [k \in 1..Len(ps) |-> ps[k].value]]

\* What client.multicall({contracts, allowFailure: true}) may do on a slice: a
\* response is [kind |-> "throw"], or a value of kind "array" (a plain array),
\* "wrapped" (an object with the array under .results) or "other" (neither).
\* Position k of a well-sized array reports call k: a failure, or, when the
\* chain read succeeds, the call's value.  "short" drops the first entry,
\* "long" has an extra leading failure entry.
WellSized(chain, sl) ==
  { r \in [1..Len(sl) -> {Failure} \cup {Success(readContract(chain, sl[k]).value) :
                                            k \in {j \in 1..Len(sl) : readContract(chain, sl[j]).ok}}] :
      \A k \in 1..Len(sl) :
        r[k] = Failure \/ (readContract(chain, sl[k]).ok
                            /\ r[k] = Success(readContract(chain, sl[k]).value)) }
MulticallResponses(chain, sl) ==
  {[kind |-> "throw"], [kind |-> "other"]}
    \cup {[kind |-> "array", items |-> r] : r \in WellSized(chain, sl)}
    \cup {[kind |-> "wrapped", items |-> r] : r \in WellSized(chain, sl)}
    \cup {[kind |-> "array", items |-> Tail(r)] : r \in WellSized(chain, sl) \ {<<>>}}
    \cup {[kind |-> "array", items |-> <<Failure>> \o r] : r \in WellSized(chain, sl)}

\* safeMulticall: viem's multicall when multicall3 is configured, else the
\* calls one by one, each failure captured
safeMulticall(hasMulticall, chain, sl, resp) ==
  IF hasMulticall THEN resp
  ELSE [kind |-> "array",
        items |-> [k \in 1..Len(sl) |->
                     IF readContract(chain, sl[k]).ok
                     THEN Success(readContract(chain, sl[k]).value) ELSE Failure]]

\* res = Array.isArray(r) ? r : (Array.isArray(r?.results) ? r.results : []),
\* left [] when safeMulticall threw
resOf(r) == IF r.kind \in {"array", "wrapped"} THEN r.items ELSE <<>>
successCount(res) == Cardinality({k \in 1..Len(res) : res[k].status = "success"})
\* (mutant of useDirect: the threshold is a tenth of the results)
useDirect_tenth(res) == Len(res) = 0 \/ 10 * successCount(res) < Len(res)

\* !res.length || okShare < 0.05, okShare = successes / (res.length || 1)
useDirect(res) == Len(res) = 0 \/ 20 * successCount(res) < Len(res)

\* (mutant of directReads: the failed reads are left out of the result)
directReads_dropFailures(chain, sl) ==
  LET all == PromiseAll([k \in 1..Len(sl) |-> perCallRead(chain, sl[k])])
      IsSuccess(x) == x.status = "success"
  IN  IF all.state = "fulfilled"
      THEN [state |-> "fulfilled", value |-> SelectSeq(all.value, IsSuccess)]
      ELSE all

\* the per-call promises of a slice once all have settled
directReads(chain, sl) == PromiseAll([k \in 1..Len(sl) |-> perCallRead(chain, sl[k])])

\* one iteration of the loop of multicallChunked: what is pushed on out
chunkOut(hasMulticall, chain, sl, resp) ==
  IF useDirect(resOf(safeMulticall(hasMulticall, chain, sl, resp)))
  THEN directReads(chain, sl)
  ELSE [state |-> "fulfilled", value |-> resOf(safeMulticall(hasMulticall, chain, sl, resp))]

\* multicallChunked(client, contracts, chunkSize), resps[b] being what the
\* aggregated backend does on chunk b: [threw |-> TRUE] or [threw |-> FALSE, out |-> ..]
multicallChunked(hasMulticall, chain, contracts, chunkSize, resps) ==
  LET slices == chunk(contracts, chunkSize)
      outs == [b \in 1..Len(slices) |-> chunkOut(hasMulticall, chain, slices[b], resps[b])]
  IN  IF \E b \in 1..Len(outs) : outs[b].state = "rejected"
      THEN [threw |-> TRUE, out |-> <<>>]
      ELSE [threw |-> FALSE, out |-> Flatten([b \in 1..Len(outs) |-> outs[b].value])]

\* ----------------------------------------------------- SpecProbe machine
MaxCalls == 3       \* short probe inputs have at most this many calls
MaxChunk == 3       \* chunk sizes 1..MaxChunk for the short inputs
LongCalls == 21     \* the long probe input has this many calls
MaxLongOk == 2      \* an aggregated answer to a long slice has at most this many successes

\* call k reads the value <<"value", k>>; the calls in pFail reject
pChain ==
  tableChain([c \in 1..(LongCalls + MaxCalls + 1) |->
                IF c \in pFail THEN Throws ELSE Ok(<<"value", c>>)])
pSlice == slice(pCalls, pI, pI + pChunk)
\* the chunk the loop is at, counted from 1
pChunkNo == (pI \div pChunk) + 1
IsLongSlice(sl) == Len(sl) > MaxCalls + 1

\* what the aggregated backend may answer: any answer for a short slice; for a
\* long slice it throws, answers with something that is no array, or reports
\* the last m calls as successes and the others as failures
LongResponses(chain, sl) ==
  {[kind |-> "throw"], [kind |-> "other"]}
    \cup {[kind |-> "array",
           items |-> [k \in 1..Len(sl) |->
                        IF k > Len(sl) - m THEN Success(readContract(chain, sl[k]).value)
                        ELSE Failure]] : m \in 0..MaxLongOk}
ProbeResponses(chain, sl) ==
  IF IsLongSlice(sl) THEN LongResponses(chain, sl) ELSE MulticallResponses(chain, sl)

InitProbe ==
  /\ \/ /\ pCalls \in {[k \in 1..n |-> k] : n \in 0..MaxCalls}
        /\ pChunk \in 1..MaxChunk
     \/ /\ pCalls = [k \in 1..LongCalls |-> k]
        /\ pChunk \in {LongCalls - 1, LongCalls}
  /\ pHasMc \in BOOLEAN
  /\ pFail \in SUBSET (1..MaxCalls)
  /\ pI = 0 /\ pRes = <<>> /\ pOut = <<>> /\ pPc = "loop"
  /\ pSettled = <<>> /\ pSrc = <<>> /\ pOrder = <<>> /\ pIssued = 0 /\ pLog = <<>>

\* lines 82-90: the next slice is taken and safeMulticall is called on it
ProbeIssue ==
  /\ pPc = "loop" /\ pI < Len(pCalls)
  /\ pPc' = "multicall"
  /\ pLog' = Append(pLog, [e |-> "issue", how |-> "aggregated", chunk |-> pChunkNo, k |-> 0])
  /\ UNCHANGED <<pCalls, pChunk, pHasMc, pFail, pI, pRes, pOut, pSettled, pSrc, pOrder, pIssued>>
  /\ UNCHANGED pOthers

\* lines 83-97 and 107-109: the aggregated attempt of one chunk; its results are
\* pushed, or the per-call reads of the whole slice are issued (lines 98-104)
ProbeChunk ==
  /\ pPc = "multicall"
  /\ \E resp \in ProbeResponses(pChain, pSlice) :
       LET r == safeMulticall(pHasMc, pChain, pSlice, resp)
           res == resOf(r)
           settled == [e |-> "settle", how |-> "aggregated", chunk |-> pChunkNo, k |-> 0,
                       threw |-> r.kind = "throw", res |-> res]
       IN
       /\ pRes' = res
       /\ IF useDirect(res)
          THEN /\ pPc' = "direct"
               /\ pSettled' = [k \in 1..Len(pSlice) |-> PendingPromise]
               /\ pOrder' = <<>>
               /\ pIssued' = pIssued + Len(pSlice)
               /\ pLog' = Append(pLog, settled) \o
                            [k \in 1..Len(pSlice) |->
                               [e |-> "issue", how |-> "direct", chunk |-> pChunkNo, k |-> k]]
               /\ UNCHANGED <<pOut, pI, pSrc>>
          ELSE /\ pOut' = pOut \o res
               /\ pSrc' = pSrc \o [k \in 1..Len(res) |->
                                     [how |-> IF pHasMc THEN "multicall" ELSE "sequential",
                                      call |-> IF k <= Len(pSlice) THEN pSlice[k] ELSE 0,
                                      pendingAtJoin |-> 0]]
               /\ pI' = pI + pChunk
               /\ pPc' = "loop"
               /\ pLog' = Append(pLog, settled)
               /\ UNCHANGED <<pSettled, pOrder, pIssued>>
  /\ UNCHANGED <<pCalls, pChunk, pHasMc, pFail>>
  /\ UNCHANGED pOthers

\* one per-call read of the slice settles (in any order)
DirectSettle ==
  /\ pPc = "direct"
  /\ \E k \in 1..Len(pSlice) :
       /\ pSettled[k] = PendingPromise
       \* (the reads of a long slice are explored settling in the order of the slice)
       /\ IsLongSlice(pSlice) => \A j \in 1..(k - 1) : pSettled[j] # PendingPromise
       /\ pSettled' = [pSettled EXCEPT ![k] = perCallRead(pChain, pSlice[k])]
       /\ pOrder' = Append(pOrder, k)
       /\ pLog' = Append(pLog, [e |-> "settle", how |-> "direct", chunk |-> pChunkNo, k |-> k])
  /\ UNCHANGED <<pCalls, pChunk, pHasMc, pFail, pI, pRes, pOut, pPc, pSrc, pIssued>>
  /\ UNCHANGED pOthers

\* lines 98-106: await Promise.all(...) resumes; out.push(...direct)
DirectJoin ==
  /\ pPc = "direct"
  /\ PromiseAll(pSettled).state # "pending"
  /\ IF PromiseAll(pSettled).state = "rejected"
     THEN /\ pPc' = "threw"
          /\ UNCHANGED <<pOut, pSrc, pI>>
     ELSE /\ pOut' = pOut \o PromiseAll(pSettled).value
          /\ pSrc' = pSrc \o [k \in 1..Len(pSlice) |->
                                [how |-> "direct", call |-> pSlice[k],
                                 pendingAtJoin |->
                                   Cardinality({j \in 1..Len(pSettled) : pSettled[j] = PendingPromise})]]
          /\ pI' = pI + pChunk
          /\ pPc' = "loop"
  /\ pLog' = Append(pLog, [e |-> "join", how |-> "direct", chunk |-> pChunkNo, k |-> 0])
  /\ UNCHANGED <<pCalls, pChunk, pHasMc, pFail, pRes, pSettled, pOrder, pIssued>>
  /\ UNCHANGED pOthers

\* line 111: return out
ProbeReturn ==
  /\ pPc = "loop" /\ pI >= Len(pCalls)
  /\ pPc' = "done"
  /\ UNCHANGED <<pCalls, pChunk, pHasMc, pFail, pI, pRes, pOut, pSettled, pSrc, pOrder, pIssued,
                 pLog>>
  /\ UNCHANGED pOthers

\* ----------------------------------------------------------- pool lookup

\* (mutant of sortTokens: the equality test is missing)
sortTokens_noEqualCheck(a, b) ==
  LET inverted == StrLess(toLowerCase(b), toLowerCase(a))
  IN  [threw |-> FALSE, token0 |-> IF inverted THEN b ELSE a,
       token1 |-> IF inverted THEN a ELSE b, inverted |-> inverted]

\* sortTokens of pools.ts
sortTokens(a, b) ==
  IF toLowerCase(a) = toLowerCase(b)
  THEN [threw |-> TRUE]
  ELSE LET inverted == StrLess(toLowerCase(b), toLowerCase(a))
       IN  [threw |-> FALSE, token0 |-> IF inverted THEN b ELSE a,
            token1 |-> IF inverted THEN a ELSE b, inverted |-> inverted]

InitPool ==
  /\ qFn \in {"getPoolAddress", "findPool"}
  /\ qA \in SmallAddrs /\ qB \in SmallAddrs
  /\ qFee \in {FEES[k] : k \in 1..Len(FEES)}
  /\ qSorted = [threw |-> FALSE] /\ qReads = <<>> /\ qPc = "start" /\ qResult = [kind |-> "none"]

\* getPoolAddress lines 74-80 / findPool lines 92-98: sortTokens, then the
\* getPool read is issued (an error thrown by sortTokens leaves the function)
PoolCall ==
  /\ qPc = "start"
  /\ qSorted' = sortTokens(qA, qB)
  /\ IF sortTokens(qA, qB).threw
     THEN /\ qPc' = "done"
          /\ qResult' = [kind |-> "error"]
          /\ UNCHANGED qReads
     ELSE /\ qPc' = "reading"
          /\ qReads' = Append(qReads,
                [address |-> "factory", functionName |-> "getPool",
                 args |-> <<sortTokens(qA, qB).token0, sortTokens(qA, qB).token1, qFee>>])
          /\ UNCHANGED qResult
  /\ UNCHANGED <<qFn, qA, qB, qFee>>
  /\ UNCHANGED qOthers

\* the read settles: it rejects, or returns the zero address or the pool
PoolRead ==
  /\ qPc = "reading"
  /\ \E r \in {Throws, Ok(ZeroAddress),
               Ok(PoolAddr(toLowerCase(qSorted.token0), toLowerCase(qSorted.token1), qFee))} :
       qResult' =
         IF ~r.ok THEN [kind |-> "error"]
         ELSE IF qFn = "getPoolAddress" THEN [kind |-> "address", pool |-> r.value]
         \* findPool line 100: if (!pool || pool.toLowerCase() === zeroAddress) return null
         ELSE IF toLowerCase(r.value) = ZeroAddress THEN [kind |-> "null"]
         ELSE [kind |-> "pool", pool |-> r.value, token0 |-> qSorted.token0,
               token1 |-> qSorted.token1, inverted |-> qSorted.inverted]
  /\ qPc' = "done"
  /\ UNCHANGED <<qFn, qA, qB, qFee, qSorted, qReads>>
  /\ UNCHANGED qOthers

\* ------------------------------------------------------ result extractors
\* asSuccess / unwrapResult / unwrapAddress of route.ts
hasStatus(obj) == "status" \in DOMAIN obj
unwrapResult(obj) ==
  IF hasStatus(obj) THEN (IF obj.status = "success" THEN obj.result ELSE Null)
  ELSE IF obj.t \in {"string", "number", "bigint", "array"} THEN obj
  ELSE Null
\* (mutant of unwrapAddress: the length of the string is not looked at)
unwrapAddress_noLengthCheck(obj) ==
  LET v == unwrapResult(obj) IN
  IF v.t = "string" THEN v
  ELSE IF v.t = "array" /\ At(v, 0).t = "string" THEN At(v, 0)
  ELSE Null

unwrapAddress(obj) ==
  LET v == unwrapResult(obj) IN
  IF v.t = "string" THEN (IF v.len < 42 THEN Null ELSE v)
  ELSE IF v.t = "array" /\ At(v, 0).t = "string"
       THEN (IF At(v, 0).len < 42 THEN Null ELSE At(v, 0))
  ELSE Null

\* ---------------------------------------------------- buffered discovery
CHUNK_EXISTENCE == 200
CHUNK_STATE == 150
FALLBACK_PAIRS == 1500
FEES_FALLBACK == <<3000, 500, 100, 10000>>

\* the aggregated backend's behaviour on a slice, by policy: the true outcome of
\* every call ("exact", as a plain array or under .results), a failure for
\* every call that returns something else than the zero address and the true
\* outcome for the rest ("failNonZero"), the exact array without its first
\* entry ("short") or with an extra leading failure ("long"), a non-array
\* ("other"), an exception ("throw")
Policies == {"exact", "wrapped", "failNonZero", "short", "long", "other", "throw"}
exactEntry(chain, c) ==
  IF readContract(chain, c).ok THEN Success(readContract(chain, c).value) ELSE Failure
PolicyResponse(policy, chain, sl) ==
  LET exact == [k \in 1..Len(sl) |-> exactEntry(chain, sl[k])] IN
  IF policy = "throw" THEN [kind |-> "throw"]
  ELSE IF policy = "other" THEN [kind |-> "other"]
  ELSE IF policy = "exact" THEN [kind |-> "array", items |-> exact]
  ELSE IF policy = "wrapped" THEN [kind |-> "wrapped", items |-> exact]
  ELSE IF policy = "short" THEN [kind |-> "array", items |-> Tail(exact)]
  ELSE IF policy = "long" THEN [kind |-> "array", items |-> <<Failure>> \o exact]
  ELSE [kind |-> "array",
        items |-> [k \in 1..Len(sl) |->
                     IF exact[k] # Failure /\ exact[k].result # Str(ZeroAddress)
                     THEN Failure ELSE exact[k]]]
policyResps(policy, chain, contracts, chunkSize) ==
  [b \in 1..Len(chunk(contracts, chunkSize)) |->
     PolicyResponse(policy, chain, chunk(contracts, chunkSize)[b])]

\* lines 234-245: one found entry per (pair, fee) whose result unwraps to a
\* non-zero address; poolRes[k++] is undefined past the end of poolRes
foundFrom(pairs, fees, poolRes) ==
  LET cand == Flatten([p \in 1..Len(pairs) |->
                 [f \in 1..Len(fees) |->
                    LET r == Elem(poolRes, (p - 1) * Len(fees) + f)
                        u == unwrapAddress(r)
                    IN  [pool |-> IF Truthy(u) THEN u.v ELSE ZeroAddress,
                         token0 |-> orderPair(pairs[p][1], pairs[p][2])[1],
                         token1 |-> orderPair(pairs[p][1], pairs[p][2])[2],
                         fee |-> fees[f]]]])
      NonZero(e) == toLowerCase(e.pool) # ZeroAddress
  IN  SelectSeq(cand, NonZero)

\* lines 293-303: the same loop of the fallback scan, reading r.result directly
foundSmallFrom(pairs, fees, resSmall) ==
  LET cand == Flatten([p \in 1..Len(pairs) |->
                 [f \in 1..Len(fees) |->
                    LET r == Elem(resSmall, (p - 1) * Len(fees) + f)
                    IN  [pool |-> IF hasStatus(r) /\ r.status = "success" THEN r.result.v
                                  ELSE ZeroAddress,
                         token0 |-> orderPair(pairs[p][1], pairs[p][2])[1],
                         token1 |-> orderPair(pairs[p][1], pairs[p][2])[2],
                         fee |-> fees[f]]]])
      NonZero(e) == toLowerCase(e.pool) # ZeroAddress
  IN  SelectSeq(cand, NonZero)

\* line 277
pairsSmall(list) == slice(pairsCapped(list), 0, Min(Len(pairsCapped(list)), FALLBACK_PAIRS))
\* (mutant of callsSmall: the fee tiers in the order of the first pass)
callsSmall_firstPassFees(list) == callsFor(pairsSmall(list), FEES)

\* lines 278-284
callsSmall(list) == callsFor(pairsSmall(list), FEES_FALLBACK)

\* lines 327-331
stateCallsOf(found) ==
  Flatten([i \in 1..Len(found) |->
             <<stateCall(found[i].pool, "slot0"), stateCall(found[i].pool, "liquidity"),
               stateCall(found[i].pool, "tickSpacing")>>])

\* lines 336-356: the row of found entry f from its three state results
rowOf(f, r0, r1, r2) ==
  LET s0Raw == unwrapResult(r0)
      liqRaw == unwrapResult(r1)
      spcRaw == unwrapResult(r2)
      liq == IF liqRaw.t = "bigint" THEN liqRaw
             ELSE IF liqRaw.t = "array" THEN At(liqRaw, 0) ELSE Undefined
      spc == IF spcRaw.t = "bigint" THEN Num(spcRaw.v)
             ELSE IF spcRaw.t \in {"null", "undefined"} THEN Num(0) ELSE spcRaw
  IN  [pool |-> f.pool, token0 |-> f.token0, token1 |-> f.token1, fee |-> f.fee,
       tickSpacing |-> spc,
       liquidity |-> IF Truthy(liq) THEN StringOf(liq) ELSE [t |-> "decimal", v |-> 0],
       slot0 |-> IF Truthy(s0Raw)
                 THEN [sqrtPriceX96 |-> StringOf(At(s0Raw, 0)), tick |-> NumberOf(At(s0Raw, 1))]
                 ELSE Null]
rowsOf(found, stateRes) ==
  [i \in 1..Len(found) |->
     rowOf(found[i], Elem(stateRes, 3 * i - 2), Elem(stateRes, 3 * i - 1), Elem(stateRes, 3 * i))]

\* line 273: if (!found.length) before the fallback scan; line 306: the same
\* test before the empty response
needsFallback(found) == Len(found) = 0
noPools(found) == Len(found) = 0

\* inputs: three short lists (mixed case, unsorted, with a repeated address)
\* and a long one, whose pairs exceed FALLBACK_PAIRS and whose calls span
\* several chunks
LongLen == 56
DiscShortLists ==
  { << <<1, 1>>, <<2, 0>> >>,
    << <<2, 0>>, <<1, 1>>, <<3, 0>> >>,
    << <<1, 0>>, <<1, 1>>, <<3, 1>>, <<2, 0>> >> }
DiscLongList == [k \in 1..LongLen |-> <<k, k % 2>>]
IsLong(list) == Len(list) > 4
\* the pool keys that may hold a pool
CandidateKeys(list) == {<<1, 2, 3000>>, <<1, 3, 100>>, <<2, 3, 500>>}
\* on the long list: a pool in the second chunk of calls and one at pair 1505,
\* past the pairs of the fallback scan; or only the latter
LongPools == { {<<2, 10, 3000>>, <<48, 49, 3000>>}, {<<48, 49, 3000>>} }
FailableStateReads(list) ==
  IF IsLong(list) THEN {}
  ELSE {<<PoolAddr(<<1, 0>>, <<2, 0>>, 3000)[1], fn>> : fn \in {"slot0", "liquidity", "tickSpacing"}}
\* the backend behaviours explored: all of them on the short lists (one, as the
\* backend is not consulted, without multicall3), two on the long list
PoliciesFor(list, hasMulticall) ==
  IF ~hasMulticall THEN {"exact"}
  ELSE IF IsLong(list) THEN {"failNonZero", "throw"} ELSE Policies

InitDisc ==
  /\ dList \in DiscShortLists \cup {DiscLongList}
  /\ dHasMc \in (IF IsLong(dList) THEN {TRUE} ELSE BOOLEAN)
  /\ dPools \in (IF IsLong(dList) THEN LongPools ELSE SUBSET CandidateKeys(dList))
  /\ dFailGet \in (IF IsLong(dList) THEN {{}, {<<1, 2, 100>>}}
                   ELSE {{}} \cup {{k} : k \in CandidateKeys(dList)})
  /\ dFailState \in {{}} \cup {{x} : x \in FailableStateReads(dList)}
  /\ dPc = "start" /\ dPolicy = <<>> /\ dRes = <<>> /\ dFound = <<>> /\ dFirstFound = <<>>
  /\ dFallback = <<>> /\ dStateCalls = <<>> /\ dAgg = 0 /\ dResponse = [kind |-> "none"]

\* lines 219-232: await multicallChunked(client, calls, 200), all calls read
\* one by one should it throw
existenceResults(hasMulticall, chain, calls, policy) ==
  LET mc == multicallChunked(hasMulticall, chain, calls, CHUNK_EXISTENCE,
                             policyResps(policy, chain, calls, CHUNK_EXISTENCE))
  IN  IF mc.threw THEN directReads(chain, calls) ELSE [state |-> "fulfilled", value |-> mc.out]

\* lines 192-245: the calls, the first existence pass, found
DiscExistence ==
  /\ dPc = "start"
  /\ \E policy \in PoliciesFor(dList, dHasMc) :
     \E calls \in {bufferedCalls(dList)} :
     \E res \in {existenceResults(dHasMc, chainFor(dPools, dFailGet, dFailState),
                                  calls, policy)} :
       /\ dPolicy' = <<policy>>
       /\ dAgg' = dAgg + Len(chunk(calls, CHUNK_EXISTENCE))
       /\ IF res.state = "rejected"
          THEN /\ dPc' = "done"
               /\ dResponse' = [kind |-> "error"]
               /\ UNCHANGED <<dRes, dFound, dFirstFound>>
          ELSE /\ dPc' = "afterFirst"
               /\ dRes' = res.value
               /\ dFound' = foundFrom(pairsCapped(dList), FEES, res.value)
               /\ dFirstFound' = foundFrom(pairsCapped(dList), FEES, res.value)
               /\ UNCHANGED dResponse
  /\ UNCHANGED <<dList, dHasMc, dPools, dFailGet, dFailState, dFallback, dStateCalls>>
  /\ UNCHANGED dOthers

\* lines 273-304: the reduced scan, per-call reads only
DiscFallback ==
  /\ dPc = "afterFirst" /\ needsFallback(dFound)
  /\ \E calls \in {callsSmall(dList)} :
     \E res \in {directReads(chainFor(dPools, dFailGet, dFailState), calls)} :
       /\ dFallback' = Append(dFallback, calls)
       /\ IF res.state = "rejected"
          THEN /\ dPc' = "done"
               /\ dResponse' = [kind |-> "error"]
               /\ UNCHANGED <<dRes, dFound>>
          ELSE /\ dPc' = "afterFallback"
               /\ dRes' = res.value
               /\ dFound' = dFound \o foundSmallFrom(pairsSmall(dList), FEES_FALLBACK, res.value)
               /\ UNCHANGED dResponse
  /\ UNCHANGED <<dList, dHasMc, dPools, dFailGet, dFailState, dPolicy, dFirstFound, dStateCalls, dAgg>>
  /\ UNCHANGED dOthers

pastFallback == dPc = "afterFallback" \/ (dPc = "afterFirst" /\ ~needsFallback(dFound))

\* lines 306-324: no pool found: the empty array is returned (debug off)
DiscReturnEmpty ==
  /\ pastFallback /\ noPools(dFound)
  /\ dPc' = "done"
  /\ dResponse' = [kind |-> "empty"]
  /\ UNCHANGED <<dList, dHasMc, dPools, dFailGet, dFailState, dPolicy, dRes, dFound,
                 dFirstFound, dFallback, dStateCalls, dAgg>>
  /\ UNCHANGED dOthers

\* lines 326-385: the state probe and the rows (the token metadata added to
\* each row and the cache write do not change pool, tokens, fee or state)
DiscStateProbe ==
  /\ pastFallback /\ ~noPools(dFound)
  /\ \E policy \in PoliciesFor(dList, dHasMc) :
     \E calls \in {stateCallsOf(dFound)} :
     \E mc \in {LET chain == chainFor(dPools, dFailGet, dFailState)
                IN  multicallChunked(dHasMc, chain, calls, CHUNK_STATE,
                                     policyResps(policy, chain, calls, CHUNK_STATE))} :
       /\ dPolicy' = Append(dPolicy, policy)
       /\ dStateCalls' = calls
       /\ dAgg' = dAgg + Len(chunk(calls, CHUNK_STATE))
       /\ dResponse' = IF mc.threw THEN [kind |-> "error"]
                       ELSE [kind |-> "rows", rows |-> rowsOf(dFound, mc.out)]
  /\ dPc' = "done"
  /\ UNCHANGED <<dList, dHasMc, dPools, dFailGet, dFailState, dRes, dFound, dFirstFound, dFallback>>
  /\ UNCHANGED dOthers

\* ---------------------------------------- streaming discovery (SpecStream)
\* the promise of client.readContract(c)
rawRead(chain, c) ==
  IF readContract(chain, c).ok
  THEN [state |-> "fulfilled", value |-> readContract(chain, c).value]
  ELSE [state |-> "rejected"]

\* (mutant of existenceRead: the .catch handler is missing)
existenceRead_noCatch(chain, c) == rawRead(chain, c)

\* lines 137-144: client.readContract({... getPool ...}).catch(() => zero)
existenceRead(chain, c) ==
  IF rawRead(chain, c).state = "rejected"
  THEN [state |-> "fulfilled", value |-> Str(ZeroAddress)]
  ELSE rawRead(chain, c)

\* lines 135-146: Promise.all(calls.map(...))
existenceReads(chain, calls) ==
  PromiseAll([k \in 1..Len(calls) |-> existenceRead(chain, calls[k])])

\* lines 123-132: the calls of a batch; pair keeps the pair as enumerated
batchCalls(batch) ==
  Flatten([p \in 1..Len(batch) |->
             [f \in 1..Len(FEES) |->
                [pair |-> batch[p], fee |-> FEES[f],
                 args |-> getPoolCall(batch[p][1], batch[p][2], FEES[f]).args]]])
factoryCall(c) == [address |-> "factory", functionName |-> "getPool", args |-> c.args]

\* lines 150-151: pool = results[idx] || zero; skipped if !pool or zero
poolAt(results, idx) ==
  IF Truthy(Elem(results, idx + 1)) THEN Elem(results, idx + 1) ELSE Str(ZeroAddress)
isPoolAt(results, idx) ==
  /\ Truthy(poolAt(results, idx))
  /\ toLowerCase(poolAt(results, idx).v) # ZeroAddress

\* lines 157-173: Promise.all([slot0, liquidity, tickSpacing])
stateReads(chain, pool) ==
  PromiseAll(<<rawRead(chain, stateCall(pool, "slot0")),
               rawRead(chain, stateCall(pool, "liquidity")),
               rawRead(chain, stateCall(pool, "tickSpacing"))>>)

\* lines 175-195: the record of a pool
poolLine(c, pool, vals) ==
  [type |-> "pool", pool |-> pool, token0 |-> c.pair[1], token1 |-> c.pair[2], fee |-> c.fee,
   tickSpacing |-> IF vals[3].t = "bigint" THEN NumberOf(vals[3]) ELSE vals[3],
   liquidity |-> StringOf(vals[2]),
   slot0 |-> [sqrtPriceX96 |-> StringOf(At(vals[1], 0)), tick |-> NumberOf(At(vals[1], 1))]]
diagLine(list) ==
  [type |-> "diag", tokens |-> Len(listCapped(list)), uniqueAddresses |-> Len(addrsOf(list)),
   pairsTotal |-> Len(pairsOf(addrsOf(list))), pairsCapped |-> Len(pairsCapped(list))]
summaryLine(emitted) == [type |-> "summary", poolsEmitted |-> emitted]
errorLine == [type |-> "error"]

\* (mutant of afterStateReads: a record is emitted also when a state read failed)
afterStateReads_emitOnFailure(lines, emitted, c, pool, all) ==
  IF all.state = "fulfilled"
  THEN [lines |-> Append(lines, poolLine(c, pool, all.value)), emitted |-> emitted + 1]
  ELSE [lines |-> Append(lines, [type |-> "pool", pool |-> pool, token0 |-> c.pair[1],
                                 token1 |-> c.pair[2], fee |-> c.fee]),
        emitted |-> emitted + 1]

\* (mutant of afterStateReads: the counter is not advanced)
afterStateReads_noCount(lines, emitted, c, pool, all) ==
  IF all.state = "fulfilled"
  THEN [lines |-> Append(lines, poolLine(c, pool, all.value)), emitted |-> emitted]
  ELSE [lines |-> lines, emitted |-> emitted]

\* lines 156-201: try { await the reads; enqueue the record; emitted++ } catch {}
afterStateReads(lines, emitted, c, pool, all) ==
  IF all.state = "fulfilled"
  THEN [lines |-> Append(lines, poolLine(c, pool, all.value)), emitted |-> emitted + 1]
  ELSE [lines |-> lines, emitted |-> emitted]

streamBatches(list) == chunk(pairsCapped(list), STREAM_BATCH)

\* The loops of lines 115-208 from position `from` of batch b on, up to the next
\* await: the state reads of the next pool of the batch, else the existence
\* reads of the next batch, else the summary line and the close.
StreamContinue(b, calls, results, from, lines, emitted, log) ==
  LET rest == {i \in from..(Len(calls) - 1) : isPoolAt(results, i)}
      batches == streamBatches(sList)
  IN  IF rest # {}
      THEN LET idx == CHOOSE i \in rest : \A j \in rest : i <= j IN
           /\ sPc' = "state" /\ sIdx' = idx
           /\ sB' = b /\ sCalls' = calls /\ sResults' = results
           /\ sLines' = lines /\ sEmitted' = emitted
           /\ sLog' = Append(log, [e |-> "state", batch |-> b, idx |-> idx])
           /\ UNCHANGED sClosed
      ELSE IF b < Len(batches)
      THEN /\ sPc' = "existence" /\ sIdx' = 0
           /\ sB' = b + 1 /\ sCalls' = batchCalls(batches[b + 1]) /\ sResults' = <<>>
           /\ sLines' = lines /\ sEmitted' = emitted
           /\ sLog' = Append(log, [e |-> "existence", batch |-> b + 1, idx |-> 0])
           /\ UNCHANGED sClosed
      ELSE /\ sPc' = "done" /\ sIdx' = from
           /\ sB' = b /\ sCalls' = calls /\ sResults' = results
           /\ sLines' = Append(lines, summaryLine(emitted)) /\ sEmitted' = emitted
           /\ sLog' = log
           /\ sClosed' = TRUE

\* lines 209-216: the outer catch
StreamFail(lines) ==
  /\ sPc' = "done" /\ sLines' = Append(lines, errorLine) /\ sClosed' = TRUE
  /\ UNCHANGED <<sB, sCalls, sResults, sIdx, sEmitted, sLog>>

\* inputs: short lists, and a list whose pairs span more than one batch
StreamLen == 11
StreamLongList == [k \in 1..StreamLen |-> <<k, k % 2>>]
StreamLists == DiscShortLists \cup {<<>>, StreamLongList}
\* the pool keys that may hold a pool; the last lies in the second batch
StreamKeys == {<<1, 2, 3000>>, <<1, 3, 500>>, <<10, 11, 3000>>}
StreamFailableStateReads ==
  {<<PoolAddr(<<k[1], 0>>, <<k[2], 0>>, k[3])[1], fn>> :
     k \in {<<1, 2, 3000>>, <<1, 3, 500>>}, fn \in {"slot0", "liquidity", "tickSpacing"}}
sChain == chainFor(sPools, sFailGet, sFailState)

InitStream ==
  /\ sList \in StreamLists
  /\ sPools \in SUBSET StreamKeys
  /\ sFailGet \in {{}} \cup {{k} : k \in StreamKeys}
  /\ sFailState \in {{}} \cup {{x} : x \in StreamFailableStateReads}
  /\ sPc = "start" /\ sB = 0 /\ sCalls = <<>> /\ sResults = <<>> /\ sIdx = 0 /\ sEmitted = 0
  /\ sLines = <<>> /\ sClosed = FALSE /\ sLog = <<>>

\* lines 77-115: the pairs, the diag line, emitted = 0, the first batch
StreamStart ==
  /\ sPc = "start"
  /\ StreamContinue(0, <<>>, <<>>, 0, <<diagLine(sList)>>, 0, sLog)
  /\ UNCHANGED <<sList, sPools, sFailGet, sFailState>>
  /\ UNCHANGED sOthers

\* lines 135-151: the existence reads of the batch have settled
StreamExistence ==
  /\ sPc = "existence"
  /\ \E all \in {existenceReads(sChain, [k \in 1..Len(sCalls) |-> factoryCall(sCalls[k])])} :
       IF all.state = "rejected" THEN StreamFail(sLines)
       ELSE StreamContinue(sB, sCalls, all.value, 0, sLines, sEmitted, sLog)
  /\ UNCHANGED <<sList, sPools, sFailGet, sFailState>>
  /\ UNCHANGED sOthers

\* lines 153-202: the state reads of the pool at idx have settled
StreamState ==
  /\ sPc = "state"
  /\ \E pool \in {poolAt(sResults, sIdx).v} :
     \E after \in {afterStateReads(sLines, sEmitted, sCalls[sIdx + 1], pool,
                                   stateReads(sChain, pool))} :
       StreamContinue(sB, sCalls, sResults, sIdx + 1, after.lines, after.emitted,
                      IF Len(after.lines) > Len(sLines)
                      THEN Append(sLog, [e |-> "emit", batch |-> sB, idx |-> sIdx])
                      ELSE sLog)
  /\ UNCHANGED <<sList, sPools, sFailGet, sFailState>>
  /\ UNCHANGED sOthers

\* --------------------------------- route selection of the swap card (SpecRoute)
FEE_CANDIDATES == <<500, 3000, 10000>>
ZERO_ADDRESS == ZeroAddress
\* an address state that is undefined
NoToken == <<0, 2>>
IsSet(a) == a # NoToken
ErrText(m) == [t |-> "string", v |-> m]

\* getPool of the factory, tokens ordered as lines 316-319 order them
routeGetPool(a, b, fee) ==
  [address |-> "factory", functionName |-> "getPool",
   args |-> <<orderPair(a, b)[1], orderPair(a, b)[2], fee>>]

\* (mutant of directStep: liquidity >= bestLiquidity, a later tier wins a tie)
directStep_laterWinsTies(chain, tokenIn, tokenOut, acc, feeCandidate) ==
  LET g == routeGetPool(tokenIn, tokenOut, feeCandidate)
      poolAddr == readContract(chain, g)
      l == stateCall(poolAddr.value.v, "liquidity")
      liquidity == readContract(chain, l)
  IN  IF ~poolAddr.ok THEN [acc EXCEPT !.reads = Append(@, g)]
      ELSE IF ~Truthy(poolAddr.value) \/ poolAddr.value.v = ZERO_ADDRESS
      THEN [acc EXCEPT !.reads = Append(@, g)]
      ELSE IF ~liquidity.ok THEN [acc EXCEPT !.reads = @ \o <<g, l>>]
      ELSE IF liquidity.value.v >= acc.bestLiquidity
      THEN [hasBest |-> TRUE, bestFee |-> feeCandidate,
            bestLiquidity |-> liquidity.value.v, reads |-> acc.reads \o <<g, l>>]
      ELSE [acc EXCEPT !.reads = @ \o <<g, l>>]

\* lines 314-343, one iteration of the loop of getBestDirectPool: acc holds
\* bestFee (meaningful when hasBest), bestLiquidity and the reads issued
directStep(chain, tokenIn, tokenOut, acc, feeCandidate) ==
  LET g == routeGetPool(tokenIn, tokenOut, feeCandidate)
      poolAddr == readContract(chain, g)
      l == stateCall(poolAddr.value.v, "liquidity")
      liquidity == readContract(chain, l)
  IN  IF ~poolAddr.ok THEN [acc EXCEPT !.reads = Append(@, g)]
      ELSE IF ~Truthy(poolAddr.value) \/ poolAddr.value.v = ZERO_ADDRESS
      THEN [acc EXCEPT !.reads = Append(@, g)]
      ELSE IF ~liquidity.ok THEN [acc EXCEPT !.reads = @ \o <<g, l>>]
      ELSE IF liquidity.value.v > acc.bestLiquidity
      THEN [hasBest |-> TRUE, bestFee |-> feeCandidate,
            bestLiquidity |-> liquidity.value.v, reads |-> acc.reads \o <<g, l>>]
      ELSE [acc EXCEPT !.reads = @ \o <<g, l>>]

RECURSIVE directLoop(_, _, _, _)
directLoop(chain, tokenIn, tokenOut, n) ==
  IF n = 0 THEN [hasBest |-> FALSE, bestFee |-> 0, bestLiquidity |-> 0, reads |-> <<>>]
  ELSE directStep(chain, tokenIn, tokenOut, directLoop(chain, tokenIn, tokenOut, n - 1),
                  FEE_CANDIDATES[n])

\* lines 345-346 and 419-420: if (bestFee === null || bestLiquidity === 0n) return null
bestOrNull(acc) ==
  IF ~acc.hasBest \/ acc.bestLiquidity = 0 THEN [isNull |-> TRUE, reads |-> acc.reads]
  ELSE [isNull |-> FALSE, bestFee |-> acc.bestFee, bestLiquidity |-> acc.bestLiquidity,
        reads |-> acc.reads]

\* (mutant of getBestDirectPool: only the first fee candidate is probed)
getBestDirectPool_firstTierOnly(chain, tokenIn, tokenOut) ==
  bestOrNull(directLoop(chain, tokenIn, tokenOut, 1))

\* lines 310-347
getBestDirectPool(chain, tokenIn, tokenOut) ==
  bestOrNull(directLoop(chain, tokenIn, tokenOut, Len(FEE_CANDIDATES)))

\* (mutant of viaStep: the larger of the two hop liquidities is the score)
viaStep_maxOfHops(chain, tokenIn, tokenOut, wethAddress, acc, feeCandidate) ==
  LET g1 == routeGetPool(tokenIn, wethAddress, feeCandidate)
      g2 == routeGetPool(wethAddress, tokenOut, feeCandidate)
      pool1 == readContract(chain, g1)
      pool2 == readContract(chain, g2)
      l1 == stateCall(pool1.value.v, "liquidity")
      l2 == stateCall(pool2.value.v, "liquidity")
      liq1 == readContract(chain, l1)
      liq2 == readContract(chain, l2)
      combined == IF liq1.value.v < liq2.value.v THEN liq2.value.v ELSE liq1.value.v
  IN  IF ~pool1.ok THEN [acc EXCEPT !.reads = Append(@, g1)]
      ELSE IF ~pool2.ok THEN [acc EXCEPT !.reads = @ \o <<g1, g2>>]
      ELSE IF \/ ~Truthy(pool1.value) \/ pool1.value.v = ZERO_ADDRESS
              \/ ~Truthy(pool2.value) \/ pool2.value.v = ZERO_ADDRESS
      THEN [acc EXCEPT !.reads = @ \o <<g1, g2>>]
      ELSE IF ~liq1.ok \/ ~liq2.ok THEN [acc EXCEPT !.reads = @ \o <<g1, g2, l1, l2>>]
      ELSE IF combined > acc.bestLiquidity
      THEN [hasBest |-> TRUE, bestFee |-> feeCandidate, bestLiquidity |-> combined,
            reads |-> acc.reads \o <<g1, g2, l1, l2>>]
      ELSE [acc EXCEPT !.reads = @ \o <<g1, g2, l1, l2>>]

\* lines 362-417, one iteration of the loop of getBestViaWethRoute
viaStep(chain, tokenIn, tokenOut, wethAddress, acc, feeCandidate) ==
  LET g1 == routeGetPool(tokenIn, wethAddress, feeCandidate)
      g2 == routeGetPool(wethAddress, tokenOut, feeCandidate)
      pool1 == readContract(chain, g1)
      pool2 == readContract(chain, g2)
      l1 == stateCall(pool1.value.v, "liquidity")
      l2 == stateCall(pool2.value.v, "liquidity")
      liq1 == readContract(chain, l1)
      liq2 == readContract(chain, l2)
      combined == IF liq1.value.v < liq2.value.v THEN liq1.value.v ELSE liq2.value.v
  IN  IF ~pool1.ok THEN [acc EXCEPT !.reads = Append(@, g1)]
      ELSE IF ~pool2.ok THEN [acc EXCEPT !.reads = @ \o <<g1, g2>>]
      ELSE IF \/ ~Truthy(pool1.value) \/ pool1.value.v = ZERO_ADDRESS
              \/ ~Truthy(pool2.value) \/ pool2.value.v = ZERO_ADDRESS
      THEN [acc EXCEPT !.reads = @ \o <<g1, g2>>]
      ELSE IF ~liq1.ok \/ ~liq2.ok THEN [acc EXCEPT !.reads = @ \o <<g1, g2, l1, l2>>]
      ELSE IF combined > acc.bestLiquidity
      THEN [hasBest |-> TRUE, bestFee |-> feeCandidate, bestLiquidity |-> combined,
            reads |-> acc.reads \o <<g1, g2, l1, l2>>]
      ELSE [acc EXCEPT !.reads = @ \o <<g1, g2, l1, l2>>]

RECURSIVE viaLoop(_, _, _, _, _)
viaLoop(chain, tokenIn, tokenOut, wethAddress, n) ==
  IF n = 0 THEN [hasBest |-> FALSE, bestFee |-> 0, bestLiquidity |-> 0, reads |-> <<>>]
  ELSE viaStep(chain, tokenIn, tokenOut, wethAddress,
               viaLoop(chain, tokenIn, tokenOut, wethAddress, n - 1), FEE_CANDIDATES[n])

\* lines 350-421
getBestViaWethRoute(chain, tokenIn, tokenOut, wethAddress) ==
  IF ~IsSet(wethAddress) \/ tokenIn = wethAddress \/ tokenOut = wethAddress
  THEN [isNull |-> TRUE, reads |-> <<>>]
  ELSE bestOrNull(viaLoop(chain, tokenIn, tokenOut, wethAddress, Len(FEE_CANDIDATES)))

directRoute(tokenIn, tokenOut, direct) ==
  [t |-> "route", tokens |-> <<tokenIn, tokenOut>>, fees |-> <<direct.bestFee>>,
   viaWeth |-> FALSE]
viaRoute(tokenIn, tokenOut, wethAddress, viaWeth) ==
  [t |-> "route", tokens |-> <<tokenIn, wethAddress, tokenOut>>,
   fees |-> <<viaWeth.bestFee, viaWeth.bestFee>>, viaWeth |-> TRUE]
\* (mutant of NoRouteText: the error is not set)
NoRouteText_unset == Null

\* line 455
NoRouteText == ErrText("No route found for this pair at supported fee tiers.")

\* line 303
returnsEarly(client, tokenIn, tokenOut) ==
  ~client \/ ~IsSet(tokenIn) \/ ~IsSet(tokenOut) \/ tokenIn = tokenOut

\* the cleanup of the previous effect (lines 467-469) and the effect with the
\* new inputs up to its first await (lines 296-305, 423-427)
\* (mutant of RouteEffect: the cleanup leaves the flag of the earlier runs set)
RouteEffect_noCleanup(client, tokenIn, tokenOut, wethAddress) ==
  /\ rPoolErr' = Null /\ rRoute' = Null /\ rStatus' = Null
  /\ IF returnsEarly(client, tokenIn, tokenOut)
     THEN UNCHANGED <<rRuns, rRouting>>
     ELSE /\ rRuns' = Append(rRuns, [tokenIn |-> tokenIn, tokenOut |-> tokenOut,
                                      wethAddress |-> wethAddress, active |-> TRUE,
                                      stage |-> "direct", reads |-> <<>>])
          /\ rRouting' = TRUE
  /\ UNCHANGED <<rChain, rFee, rFeeLocked, rLast>>
  /\ rPc' = "live"

RouteEffect(client, tokenIn, tokenOut, wethAddress) ==
  LET stale == [k \in 1..Len(rRuns) |-> [rRuns[k] EXCEPT !.active = FALSE]]
  IN  /\ rPoolErr' = Null /\ rRoute' = Null /\ rStatus' = Null
      /\ IF returnsEarly(client, tokenIn, tokenOut)
         THEN /\ rRuns' = stale
              /\ UNCHANGED rRouting
         ELSE /\ rRuns' = Append(stale, [tokenIn |-> tokenIn, tokenOut |-> tokenOut,
                                          wethAddress |-> wethAddress, active |-> TRUE,
                                          stage |-> "direct", reads |-> <<>>])
              /\ rRouting' = TRUE
      /\ UNCHANGED <<rChain, rFee, rFeeLocked, rLast>>
      /\ rPc' = "live"

withoutRun(runs, i) == [k \in 1..(Len(runs) - 1) |-> IF k < i THEN runs[k] ELSE runs[k + 1]]
routeChain == [kind |-> "routes", tbl |-> rChain]

\* ---- inputs
MaxLiq == 3         \* pool liquidity ranges over 0..MaxLiq
MaxChanges == 2     \* input changes explored after the mount
TokA == <<1, 1>>
TokALower == <<1, 0>>
TokB == <<2, 1>>
TokW == <<3, 1>>
TokWLower == <<3, 0>>
FeeTiers == {100, 500, 3000, 10000}
ProbedTiers == {FEE_CANDIDATES[k] : k \in 1..Len(FEE_CANDIDATES)}
Failing(e) == ~e.getOk \/ ~e.liqOk
\* direct pools: any liquidity or no pool at the probed tiers, at most one tier
\* with a failing read; at tier 100 no pool or a pool with liquidity
DirectProfiles ==
  { p \in [FeeTiers -> {Absent, GetPoolFails, LiquidityFails} \cup {Liquid(n) : n \in 0..MaxLiq}] :
      /\ p[100] \in {Absent, Liquid(MaxLiq)}
      /\ Cardinality({f \in ProbedTiers : Failing(p[f])}) <= 1 }
\* direct pools that give no direct route
DirectNullProfiles ==
  { [f \in FeeTiers |-> Absent],
    [f \in FeeTiers |-> IF f = 3000 THEN Liquid(0) ELSE Absent],
    [f \in FeeTiers |-> IF f = 500 THEN GetPoolFails
                        ELSE IF f = 10000 THEN LiquidityFails ELSE Absent] }
HopUniform == { [f \in FeeTiers |-> Absent], [f \in FeeTiers |-> Liquid(MaxLiq)] }
HopProfiles ==
  { p \in [FeeTiers -> {Absent, Liquid(1), Liquid(MaxLiq)}] : p[100] = Absent }
    \cup { [f \in FeeTiers |-> IF f = 500 THEN GetPoolFails ELSE Liquid(1)],
           [f \in FeeTiers |-> IF f = 3000 THEN LiquidityFails ELSE Liquid(2)],
           [f \in FeeTiers |-> IF f = 10000 THEN Liquid(0) ELSE Absent] }
chainOf(d, h1, h2) ==
  [pr \in {<<1, 2>>, <<1, 3>>, <<2, 3>>} |->
     IF pr = <<1, 2>> THEN d ELSE IF pr = <<1, 3>> THEN h1 ELSE h2]
RichChains ==
  {chainOf(d, h, h) : d \in DirectProfiles, h \in HopUniform}
    \cup {chainOf(d, h1, h2) : d \in DirectNullProfiles, h1 \in HopProfiles, h2 \in HopProfiles}
SimpleChains ==
  { chainOf([f \in FeeTiers |-> IF f = 3000 THEN Liquid(1) ELSE Absent],
            [f \in FeeTiers |-> Liquid(MaxLiq)], [f \in FeeTiers |-> Liquid(MaxLiq)]),
    chainOf([f \in FeeTiers |-> Absent],
            [f \in FeeTiers |-> IF f = 500 THEN Liquid(2) ELSE Absent],
            [f \in FeeTiers |-> IF f = 500 THEN Liquid(1) ELSE Absent]),
    chainOf([f \in FeeTiers |-> Absent], [f \in FeeTiers |-> Absent],
            [f \in FeeTiers |-> Absent]) }

\* The card after construction: the tokens and the fee as the URL gives them;
\* either an arbitrary chain with both tokens given, or one of a few chains
\* and inputs that change while runs are in flight
InitRoute ==
  /\ \/ /\ rChain \in RichChains
        /\ \E io \in {<<TokA, TokB>>, <<TokB, TokA>>} : rTokenIn = io[1] /\ rTokenOut = io[2]
        /\ rWeth = TokW /\ rClient = TRUE /\ rBudget = 0
     \/ /\ rChain \in SimpleChains
        /\ rTokenIn \in {NoToken, TokA} /\ rTokenOut \in {NoToken, TokB}
        /\ rWeth \in {NoToken, TokW} /\ rClient \in BOOLEAN /\ rBudget = MaxChanges
  /\ rFeeLocked \in BOOLEAN
  /\ rFee = (IF rFeeLocked THEN 500 ELSE 3000)
  /\ rRoute = Null /\ rPoolErr = Null /\ rRouting = FALSE /\ rStatus = Null
  /\ rRuns = <<>> /\ rLast = [ran |-> FALSE] /\ rPc = "mount"

\* the effect of lines 295-470 on mount
RouteMount ==
  /\ rPc = "mount"
  /\ RouteEffect(rClient, rTokenIn, rTokenOut, rWeth)
  /\ UNCHANGED <<rTokenIn, rTokenOut, rWeth, rClient, rBudget>>
  /\ UNCHANGED rOthers

\* setTokenIn (selector, defaults of lines 270-283) and the effect re-run
SetTokenIn ==
  /\ rPc = "live" /\ rBudget > 0
  /\ \E x \in {TokA, TokALower, TokB, TokW, TokWLower} \ {rTokenIn} :
       /\ rTokenIn' = x
       /\ RouteEffect(rClient, x, rTokenOut, rWeth)
  /\ rBudget' = rBudget - 1
  /\ UNCHANGED <<rTokenOut, rWeth, rClient>>
  /\ UNCHANGED rOthers

SetTokenOut ==
  /\ rPc = "live" /\ rBudget > 0
  /\ \E x \in {TokA, TokB, TokW} \ {rTokenOut} :
       /\ rTokenOut' = x
       /\ RouteEffect(rClient, rTokenIn, x, rWeth)
  /\ rBudget' = rBudget - 1
  /\ UNCHANGED <<rTokenIn, rWeth, rClient>>
  /\ UNCHANGED rOthers

\* handleFlipTokens (lines 561-565) and the effect re-run
FlipTokens ==
  /\ rPc = "live" /\ rBudget > 0
  /\ IsSet(rTokenIn) /\ IsSet(rTokenOut) /\ rTokenIn # rTokenOut
  /\ rTokenIn' = rTokenOut /\ rTokenOut' = rTokenIn
  /\ RouteEffect(rClient, rTokenOut, rTokenIn, rWeth)
  /\ rBudget' = rBudget - 1
  /\ UNCHANGED <<rWeth, rClient>>
  /\ UNCHANGED rOthers

\* the token list arrives: wethAddress becomes defined (lines 224-229)
TokensHydrate ==
  /\ rPc = "live" /\ rBudget > 0 /\ ~IsSet(rWeth)
  /\ rWeth' = TokW
  /\ RouteEffect(rClient, rTokenIn, rTokenOut, TokW)
  /\ rBudget' = rBudget - 1
  /\ UNCHANGED <<rTokenIn, rTokenOut, rClient>>
  /\ UNCHANGED rOthers

\* usePublicClient() becomes defined (line 171)
ClientReady ==
  /\ rPc = "live" /\ rBudget > 0 /\ ~rClient
  /\ rClient' = TRUE
  /\ RouteEffect(TRUE, rTokenIn, rTokenOut, rWeth)
  /\ rBudget' = rBudget - 1
  /\ UNCHANGED <<rTokenIn, rTokenOut, rWeth>>
  /\ UNCHANGED rOthers

returned(run, reads, outcome, wrote) ==
  [ran |-> TRUE, tokenIn |-> run.tokenIn, tokenOut |-> run.tokenOut,
   wethAddress |-> run.wethAddress, active |-> run.active, reads |-> reads,
   outcome |-> outcome, wrote |-> wrote]

\* lines 427-438: getBestDirectPool() of a run has resolved
RouteDirectSettled ==
  /\ \E i \in 1..Len(rRuns) :
       /\ rRuns[i].stage = "direct"
       /\ \E direct \in {getBestDirectPool(routeChain, rRuns[i].tokenIn, rRuns[i].tokenOut)} :
            IF ~rRuns[i].active
            THEN /\ rRuns' = withoutRun(rRuns, i)
                 /\ rLast' = returned(rRuns[i], direct.reads, "superseded", Null)
                 /\ UNCHANGED <<rRoute, rFee, rRouting>>
            ELSE IF ~direct.isNull
            THEN /\ rRoute' = directRoute(rRuns[i].tokenIn, rRuns[i].tokenOut, direct)
                 /\ rFee' = (IF ~rFeeLocked THEN direct.bestFee ELSE rFee)
                 /\ rRouting' = FALSE
                 /\ rRuns' = withoutRun(rRuns, i)
                 /\ rLast' = returned(rRuns[i], direct.reads, "direct",
                                      directRoute(rRuns[i].tokenIn, rRuns[i].tokenOut, direct))
            ELSE /\ rRuns' = [rRuns EXCEPT ![i].stage = "via", ![i].reads = direct.reads]
                 /\ UNCHANGED <<rRoute, rFee, rRouting, rLast>>
  /\ UNCHANGED <<rTokenIn, rTokenOut, rWeth, rClient, rChain, rFeeLocked, rPoolErr, rStatus,
                 rBudget, rPc>>
  /\ UNCHANGED rOthers

\* lines 441-462: getBestViaWethRoute() of a run has resolved
RouteViaSettled ==
  /\ \E i \in 1..Len(rRuns) :
       /\ rRuns[i].stage = "via"
       /\ \E viaWeth \in {getBestViaWethRoute(routeChain, rRuns[i].tokenIn, rRuns[i].tokenOut,
                                              rRuns[i].wethAddress)} :
          \E reads \in {rRuns[i].reads \o viaWeth.reads} :
            /\ rRuns' = withoutRun(rRuns, i)
            /\ IF ~rRuns[i].active
               THEN /\ rLast' = returned(rRuns[i], reads, "superseded", Null)
                    /\ UNCHANGED <<rRoute, rFee, rRouting, rPoolErr>>
               ELSE IF ~viaWeth.isNull
               THEN /\ rRoute' = viaRoute(rRuns[i].tokenIn, rRuns[i].tokenOut,
                                          rRuns[i].wethAddress, viaWeth)
                    /\ rFee' = (IF ~rFeeLocked THEN viaWeth.bestFee ELSE rFee)
                    /\ rRouting' = FALSE
                    /\ rLast' = returned(rRuns[i], reads, "via",
                                         viaRoute(rRuns[i].tokenIn, rRuns[i].tokenOut,
                                                  rRuns[i].wethAddress, viaWeth))
                    /\ UNCHANGED rPoolErr
               ELSE /\ rPoolErr' = NoRouteText
                    /\ rRouting' = FALSE
                    /\ rLast' = returned(rRuns[i], reads, "none", Null)
                    /\ UNCHANGED <<rRoute, rFee>>
  /\ UNCHANGED <<rTokenIn, rTokenOut, rWeth, rClient, rChain, rFeeLocked, rStatus, rBudget, rPc>>
  /\ UNCHANGED rOthers

\* ------------------------------------------- quoting of the swap card (SpecQuote)
\* useQuote of src/hooks/useQuote.ts, quoteExactInSingle of src/lib/univ3/quotes.ts
\* and the call of useQuote by the swap card

\* The text of the amount field: empty, text that is no number ("abc"),
\* "Infinity", or a decimal numeral of the value (-1)^neg * mant / 10^scale
AmountEmpty == [kind |-> "empty"]
AmountText == [kind |-> "text"]
AmountInfinity == [kind |-> "infinity"]
Decimal(neg, mant, scale) == [kind |-> "decimal", neg |-> neg, mant |-> mant, scale |-> scale]

\* Number(amountInHuman || '0'), useQuote line 48: whether the number is finite
\* and its sign (NaN has the sign 0 here)
amountNumber(a) ==
  IF a.kind = "empty" THEN [finite |-> TRUE, sign |-> 0]
  ELSE IF a.kind = "text" THEN [finite |-> FALSE, sign |-> 0]
  ELSE IF a.kind = "infinity" THEN [finite |-> FALSE, sign |-> 1]
  ELSE [finite |-> TRUE, sign |-> IF a.mant = 0 THEN 0 ELSE IF a.neg THEN 0 - 1 ELSE 1]

\* (mutant of amountRejected: only a number that is not finite is rejected)
amountRejected_finiteOnly(a) == ~amountNumber(a).finite

\* useQuote line 49: if (!Number.isFinite(amt) || amt <= 0) return
amountRejected(a) == ~amountNumber(a).finite \/ amountNumber(a).sign <= 0

RECURSIVE Pow10(_)
Pow10(n) == IF n = 0 THEN 1 ELSE 10 * Pow10(n - 1)

\* parseUnits(amountInHuman || "0", decimalsIn) of viem: a text that is no
\* decimal numeral throws; digits beyond the decimals are rounded half up
parseUnits(a, decimals) ==
  IF a.kind = "empty" THEN [threw |-> FALSE, v |-> 0]
  ELSE IF a.kind # "decimal" THEN [threw |-> TRUE]
  ELSE LET magnitude ==
             IF a.scale <= decimals THEN a.mant * Pow10(decimals - a.scale)
             ELSE (a.mant + 5 * Pow10(a.scale - decimals - 1)) \div Pow10(a.scale - decimals)
       IN  [threw |-> FALSE, v |-> IF a.neg THEN 0 - magnitude ELSE magnitude]

\* swap card lines 429-459: the route a completed route-finding run stores
settledRoute(chain, tokenIn, tokenOut, wethAddress) ==
  LET direct == getBestDirectPool(chain, tokenIn, tokenOut)
      viaWeth == getBestViaWethRoute(chain, tokenIn, tokenOut, wethAddress)
  IN  IF ~direct.isNull THEN directRoute(tokenIn, tokenOut, direct)
      ELSE IF ~viaWeth.isNull THEN viaRoute(tokenIn, tokenOut, wethAddress, viaWeth)
      ELSE Null

\* swap card lines 474-477
effectiveTokenOut(route, tokenOut) ==
  IF route # Null THEN route.tokens[Len(route.tokens)] ELSE tokenOut

\* the getPool read of getPoolAddress (pools.ts lines 75-80)
poolAddressCall(sorted, fee) ==
  [address |-> "factory", functionName |-> "getPool",
   args |-> <<sorted.token0, sorted.token1, fee>>]

\* the read of the quoter (quotes.ts lines 71-84)
quoterCall(tokenIn, tokenOut, amountIn, fee) ==
  [address |-> "quoterV2", functionName |-> "quoteExactInputSingle",
   args |-> [tokenIn |-> tokenIn, tokenOut |-> tokenOut, amountIn |-> amountIn, fee |-> fee,
             sqrtPriceLimitX96 |-> 0]]

quoteChain == [kind |-> "routes", tbl |-> uChain]

\* the run ends: what it leaves in amountOut and error, and the finally block
\* (useQuote lines 38-39, 64, 69, 71)
quoteEnds(out, err) ==
  /\ uAmountOut' = out /\ uError' = err /\ uLoading' = FALSE /\ uPc' = "done"

\* ---- inputs
MaxQuote == 2       \* the quoter returns an amountOut of 0..MaxQuote
MaxDecimals == 2    \* tokens have 0 or MaxDecimals decimals
AmountInputs ==
  { AmountEmpty, AmountText, AmountInfinity, Decimal(FALSE, 0, 0), Decimal(FALSE, 1, 0),
    Decimal(TRUE, 1, 0), Decimal(FALSE, 15, 1), Decimal(FALSE, 1, MaxDecimals + 1),
    Decimal(FALSE, 5, MaxDecimals + 1) }
QuoteChains ==
  SimpleChains \cup
  { chainOf([f \in FeeTiers |-> IF f = 500 THEN Liquid(0) ELSE Absent],
            [f \in FeeTiers |-> IF f = 500 THEN Liquid(2) ELSE Absent],
            [f \in FeeTiers |-> IF f = 500 THEN Liquid(1) ELSE Absent]),
    chainOf([f \in FeeTiers |-> GetPoolFails], [f \in FeeTiers |-> Absent],
            [f \in FeeTiers |-> Absent]),
    chainOf([f \in FeeTiers |-> IF f = 500 THEN Liquid(1)
                                ELSE IF f = 3000 THEN Liquid(2) ELSE Absent],
            [f \in FeeTiers |-> Absent], [f \in FeeTiers |-> Absent]) }
QuoterOutcomes ==
  {Throws} \cup {Ok(Arr(<<BigIntV(n), BigIntV(1), Num(0), BigIntV(1)>>)) : n \in 0..MaxQuote}

\* The hook as the swap card calls it: the tokens of the card, the route the
\* card holds (none, or the one its route-finding run stored), the fee (set from
\* the route unless the fee is locked), and the text of the amount field
InitQuote ==
  /\ uClient \in BOOLEAN
  /\ uChain \in QuoteChains
  /\ uTokenIn \in {NoToken, TokA, TokALower, TokB}
  /\ \E tokenOut \in {NoToken, TokA, TokB} :
     \E found \in BOOLEAN :
       /\ uPath = IF found /\ ~returnsEarly(uClient, uTokenIn, tokenOut)
                  THEN settledRoute([kind |-> "routes", tbl |-> uChain], uTokenIn, tokenOut, TokW)
                  ELSE Null
       /\ uTokenOut = effectiveTokenOut(uPath, tokenOut)
  /\ \E feeLocked \in BOOLEAN :
       IF ~feeLocked /\ uPath # Null THEN uFee = uPath.fees[1] ELSE uFee \in {500, 3000}
  /\ uAmount \in AmountInputs
  /\ uDecIn \in {0, MaxDecimals}
  /\ uAmountOut \in {Null, BigIntV(1)}
  /\ uError \in {Null, ErrText("Quote failed")}
  /\ uLoading = FALSE /\ uReads = <<>> /\ uPc = "start"

\* useQuote lines 37-55 with quotes.ts line 59 and pools.ts lines 74-80: the
\* run up to its first await, or to its end when it returns or throws before
QuoteStart ==
  /\ uPc = "start"
  /\ IF ~uClient THEN quoteEnds(Null, ErrText("No public client")) /\ UNCHANGED uReads
     ELSE IF ~IsSet(uTokenIn) \/ ~IsSet(uTokenOut) THEN quoteEnds(Null, Null) /\ UNCHANGED uReads
     ELSE IF toLowerCase(uTokenIn) = toLowerCase(uTokenOut)
     THEN quoteEnds(Null, ErrText("Pick two different tokens")) /\ UNCHANGED uReads
     ELSE IF amountRejected(uAmount) THEN quoteEnds(Null, Null) /\ UNCHANGED uReads
     ELSE IF sortTokens(uTokenIn, uTokenOut).threw
     THEN quoteEnds(Null, ErrText("tokenIn and tokenOut cannot be the same")) /\ UNCHANGED uReads
     ELSE /\ uAmountOut' = Null /\ uError' = Null /\ uLoading' = TRUE
          /\ uReads' = Append(uReads, poolAddressCall(sortTokens(uTokenIn, uTokenOut), uFee))
          /\ uPc' = "pool"
  /\ UNCHANGED <<uClient, uTokenIn, uTokenOut, uAmount, uFee, uDecIn, uPath, uChain>>
  /\ UNCHANGED uOthers

\* quotes.ts lines 59-84: the getPool read settles; the pool is looked at, the
\* amount is scaled, and the quoter is read
QuotePoolSettled ==
  /\ uPc = "pool"
  /\ LET pool == readContract(quoteChain, uReads[Len(uReads)])
         amountIn == parseUnits(uAmount, uDecIn)
     IN  IF ~pool.ok THEN quoteEnds(Null, ErrText("getPool failed")) /\ UNCHANGED uReads
         ELSE IF ~Truthy(pool.value) \/ pool.value.v = ZeroAddress
         THEN quoteEnds(Null, ErrText("Pool not found")) /\ UNCHANGED uReads
         ELSE IF amountIn.threw
         THEN quoteEnds(Null, ErrText("Invalid decimal number")) /\ UNCHANGED uReads
         ELSE IF amountIn.v = 0
         THEN quoteEnds(Null, ErrText("Enter a non-zero amount")) /\ UNCHANGED uReads
         ELSE /\ uReads' = Append(uReads, quoterCall(uTokenIn, uTokenOut, amountIn.v, uFee))
              /\ uPc' = "quoter"
              /\ UNCHANGED <<uAmountOut, uError, uLoading>>
  /\ UNCHANGED <<uClient, uTokenIn, uTokenOut, uAmount, uFee, uDecIn, uPath, uChain>>
  /\ UNCHANGED uOthers

\* quotes.ts lines 71-86 and useQuote lines 63-71: the read of the quoter
\* settles
QuoterSettled ==
  /\ uPc = "quoter"
  /\ \E r \in QuoterOutcomes :
       IF ~r.ok THEN quoteEnds(Null, ErrText("quoteExactInputSingle failed"))
       ELSE quoteEnds(r.value.v[1], Null)
  /\ UNCHANGED <<uClient, uTokenIn, uTokenOut, uAmount, uFee, uDecIn, uPath, uChain, uReads>>
  /\ UNCHANGED uOthers

\* ------------------------------------------- slippage of the swap card (SpecSlip)
\* SlippageControl, the slippageBps state of the swap card, minOut of useQuote

\* A number of JavaScript: NaN, an infinity, or the finite value num / den
JNaN == [kind |-> "nan"]
JInf(neg) == [kind |-> "inf", neg |-> neg]
JFin(num, den) == [kind |-> "fin", num |-> num, den |-> den]

\* Number(text) for the texts of a field: the empty text is 0, a text that is
\* no numeral is NaN
NumberOfText(a) ==
  IF a.kind = "empty" THEN JFin(0, 1)
  ELSE IF a.kind = "text" THEN JNaN
  ELSE IF a.kind = "infinity" THEN JInf(FALSE)
  ELSE JFin(IF a.neg THEN 0 - a.mant ELSE a.mant, Pow10(a.scale))

\* a < b for numbers that are not NaN
LessNum(a, b) ==
  IF a.kind = "inf" THEN a.neg /\ ~(b.kind = "inf" /\ b.neg)
  ELSE IF b.kind = "inf" THEN ~b.neg
  ELSE a.num * b.den < b.num * a.den
MathFloor(n) == IF n.kind = "fin" THEN JFin(n.num \div n.den, 1) ELSE n
MathMin(a, b) ==
  IF a.kind = "nan" \/ b.kind = "nan" THEN JNaN ELSE IF LessNum(b, a) THEN b ELSE a
MathMax(a, b) ==
  IF a.kind = "nan" \/ b.kind = "nan" THEN JNaN ELSE IF LessNum(a, b) THEN b ELSE a
\* BigInt(n) throws a RangeError unless n is an integer
BigInt(n) ==
  IF n.kind = "fin" /\ n.num % n.den = 0 THEN Ok(n.num \div n.den) ELSE Throws

\* (a * b) / d of bigints for a >= 0, d > 0: the exact product, the quotient
\* truncated towards zero (evaluated in two parts, which keeps the
\* intermediate values small)
BigMulDiv(a, b, d) ==
  LET q(c) == (a \div d) * c + ((a % d) * c) \div d
  IN  IF b >= 0 THEN q(b) ELSE 0 - q(0 - b)

\* SlippageControl lines 14-15
clamped(text) ==
  MathMax(JFin(0, 1), MathMin(JFin(5000, 1), MathFloor(NumberOfText(text))))

\* swap card lines 191-193: Number(process.env.NEXT_PUBLIC_DEFAULT_SLIPPAGE_BPS ?? 50)
EnvUnset == [kind |-> "unset"]
defaultSlippage(env) == IF env = EnvUnset THEN JFin(50, 1) ELSE NumberOfText(env)

\* (mutant of minOut: the slippage is added to the quote)
minOut_plus(amountOut, slippageBps) ==
  IF amountOut = Null \/ amountOut.v = 0 THEN Ok(BigIntV(0))
  ELSE IF ~BigInt(slippageBps).ok THEN Throws
  ELSE Ok(BigIntV(amountOut.v + BigMulDiv(amountOut.v, BigInt(slippageBps).value, 10000)))

\* useQuote lines 81-84
minOut(amountOut, slippageBps) ==
  IF amountOut = Null \/ amountOut.v = 0 THEN Ok(BigIntV(0))
  ELSE IF ~BigInt(slippageBps).ok THEN Throws
  ELSE Ok(BigIntV(amountOut.v - BigMulDiv(amountOut.v, BigInt(slippageBps).value, 10000)))

\* ---- inputs
MaxSlipInput == 5001  \* the configured default ranges over the integers 0..MaxSlipInput and more
MaxEdits == 2         \* edits of the slippage field explored
SlippagePresets == {25, 50, 100}
DefaultEnvs ==
  {EnvUnset, AmountEmpty, AmountText, Decimal(TRUE, 1, 0), Decimal(FALSE, 125, 1),
   Decimal(FALSE, 9000, 0), Decimal(FALSE, 20000, 0)}
    \cup {Decimal(FALSE, n, 0) : n \in 0..MaxSlipInput}
EditTexts ==
  {AmountEmpty, AmountText, AmountInfinity, Decimal(TRUE, 1, 0), Decimal(FALSE, 0, 0),
   Decimal(FALSE, 1, 0), Decimal(FALSE, 125, 1), Decimal(FALSE, 49995, 1),
   Decimal(FALSE, 5000, 0), Decimal(FALSE, 5001, 0), Decimal(FALSE, 9000, 0)}
QuoteAmounts == {Null, BigIntV(0), BigIntV(1), BigIntV(3), BigIntV(199), BigIntV(1000000)}

\* The card after construction: the configured default slippage, no quote yet
InitSlip ==
  /\ \E env \in DefaultEnvs : vSlippageBps = defaultSlippage(env)
  /\ vAmountOut = Null
  /\ vMinOut = minOut(Null, vSlippageBps)
  /\ vEdits = 0

\* SlippageControl lines 13-17: the field is edited; the card renders again
SlipEdit ==
  /\ vMinOut.ok /\ vEdits < MaxEdits
  /\ \E text \in EditTexts :
       /\ vSlippageBps' = clamped(text)
       /\ vMinOut' = minOut(vAmountOut, clamped(text))
  /\ vEdits' = vEdits + 1
  /\ UNCHANGED vAmountOut
  /\ UNCHANGED vOthers

\* SlippageControl lines 23-27: a preset button is clicked
SlipPreset ==
  /\ vMinOut.ok
  /\ \E b \in SlippagePresets :
       /\ vSlippageBps' = JFin(b, 1)
       /\ vMinOut' = minOut(vAmountOut, JFin(b, 1))
  /\ UNCHANGED <<vAmountOut, vEdits>>
  /\ UNCHANGED vOthers

\* useQuote lines 39, 64: amountOut changes; the card renders again
SlipQuote ==
  /\ vMinOut.ok
  /\ \E out \in QuoteAmounts :
       /\ vAmountOut' = out
       /\ vMinOut' = minOut(out, vSlippageBps)
  /\ UNCHANGED <<vSlippageBps, vEdits>>
  /\ UNCHANGED vOthers

\* ------------------------------- ticks of a new position (SpecTicks)
\* getFullRangeTicks of src/lib/univ3/position.ts, ticksFromPreset and the pool
\* effects of the two add-liquidity cards of AddLiquidityCard.tsx

\* position.ts lines 38-39
TICK_MIN == 0 - 887272
TICK_MAX == 887272

\* Math.floor(a / b) and Math.ceil(a / b) for integers a and b > 0
FloorOfQuotient(a, b) == a \div b
CeilOfQuotient(a, b) == 0 - ((0 - a) \div b)

\* position.ts lines 45-49
getFullRangeTicks(tickSpacing) ==
  [tickLower |-> FloorOfQuotient(TICK_MIN, tickSpacing) * tickSpacing,
   tickUpper |-> FloorOfQuotient(TICK_MAX, tickSpacing) * tickSpacing]

\* AddLiquidityCard.tsx lines 721-733 for the preset 'full' (Math.trunc of an
\* integer is that integer)
ticksFromPreset(spacing) ==
  [tickLower |-> CeilOfQuotient(0 - 887272, spacing) * spacing,
   tickUpper |-> FloorOfQuotient(887272, spacing) * spacing]

\* ---- inputs
MaxSpacing == 200   \* the tick spacing of the pool ranges over 1..MaxSpacing

\* One of the two cards with its tokens chosen and the range preset 'full';
\* the pool of the tokens and its tick spacing are what the chain holds
InitTicks ==
  /\ aCard \in {"fullRange", "preset"}
  /\ aPool \in {"found", "absent", "fails"}
  /\ aSpacing \in 1..MaxSpacing
  /\ aTickLower \in {Null, Num(0)} /\ aTickUpper = aTickLower
  /\ aPoolErr = Null /\ aPc = "start"

\* AddLiquidityCard.tsx lines 146-182: the pool effect of the card that uses
\* getFullRangeTicks
FullRangeDetect ==
  /\ aPc = "start" /\ aCard = "fullRange"
  /\ IF aPool = "found"
     THEN /\ aTickLower' = Num(getFullRangeTicks(aSpacing).tickLower)
          /\ aTickUpper' = Num(getFullRangeTicks(aSpacing).tickUpper)
          /\ aPoolErr' = Null
     ELSE /\ aTickLower' = Null /\ aTickUpper' = Null
          /\ aPoolErr' = IF aPool = "absent"
                         THEN ErrText("Pool not initialized for this pair / fee")
                         ELSE ErrText("Failed to load pool")
  /\ aPc' = "done"
  /\ UNCHANGED <<aCard, aPool, aSpacing>>
  /\ UNCHANGED aOthers

\* AddLiquidityCard.tsx lines 738-815: the pool effect of the card that uses
\* ticksFromPreset
PresetDetect ==
  /\ aPc = "start" /\ aCard = "preset"
  /\ IF aPool = "found"
     THEN /\ aTickLower' = Num(ticksFromPreset(aSpacing).tickLower)
          /\ aTickUpper' = Num(ticksFromPreset(aSpacing).tickUpper)
          /\ aPoolErr' = Null
     ELSE /\ aTickLower' = Null /\ aTickUpper' = Null
          /\ aPoolErr' = IF aPool = "absent"
                         THEN ErrText("Pool not initialized for this pair / fee")
                         ELSE ErrText("Failed to load pool")
  /\ aPc' = "done"
  /\ UNCHANGED <<aCard, aPool, aSpacing>>
  /\ UNCHANGED aOthers

\* ------------------------------------------- result extractors (SpecUnwrap)
\* a string of the given length that is no full address
ShortStr(n) == [t |-> "string", len |-> n, v |-> ZeroAddress]
\* the payloads a result may carry
UnwrapStrings ==
  ({Str(<<id, c>>) : id \in 0..MaxId, c \in {0, 1}} \ {Str(<<0, 1>>)})
    \cup {ShortStr(0), ShortStr(2), ShortStr(41)}
UnwrapScalars == UnwrapStrings \cup {Num(0), Num(5), BigIntV(0), BigIntV(7)}
UnwrapPayloads ==
  UnwrapScalars
    \cup {Arr(<<>>)} \cup {Arr(<<x>>) : x \in UnwrapScalars}
    \cup {Arr(<<x, Num(1)>>) : x \in UnwrapStrings}
    \cup {Arr(<<Null, Str(<<1, 1>>)>>), Arr(<<Arr(<<Str(<<1, 1>>)>>)>>)}
\* the shapes: the bare payload, a wrapped success, a wrapped failure, null,
\* undefined, and an object that has no status
UnwrapInputs ==
  UnwrapPayloads \cup {Success(x) : x \in UnwrapPayloads \cup {Null, Undefined}}
    \cup {Failure, Null, Undefined, [t |-> "object"]}

InitUnwrap ==
  /\ xObj \in UnwrapInputs
  /\ xOut = Null /\ xFound = <<>> /\ xPc = "start"

\* lines 238-243: the result of one getPool call is unwrapped and the found
\* entry is pushed if the pool is no zero address
UnwrapCall ==
  /\ xPc = "start"
  /\ xOut' = Ok(unwrapAddress(xObj))
  /\ xFound' = foundFrom(<<<<TokALower, TokB>>>>, <<3000>>, <<xObj>>)
  /\ xPc' = "done"
  /\ UNCHANGED xObj
  /\ UNCHANGED xOthers

\* ------------------------------------------------ adding liquidity (SpecAdd)
\* AddLiquidityCard.tsx lines 606-614
feeToTickSpacing(fee) ==
  CASE fee = 100 -> 1 [] fee = 500 -> 10 [] fee = 3000 -> 60 [] fee = 10000 -> 200
    [] OTHER -> 60

\* line 634
clampTick(t) == IF t < 0 - 887272 THEN 0 - 887272 ELSE IF t > 887272 THEN 887272 ELSE t

\* lines 637-642, for a whole number t (for a fraction, dir 'down' gives the
\* result of its floor and dir 'up' the result of its ceiling)
alignTick(t, spacing, dir) ==
  LET clampedT == clampTick(t)
      alignedQ == IF dir = "down" THEN FloorOfQuotient(clampedT, spacing)
                  ELSE CeilOfQuotient(clampedT, spacing)
  IN  clampTick(alignedQ * spacing)

\* lines 702-719, from the two raw ticks curTick + down and curTick + up
ticksFromPercent(rawLower, rawUpper, spacing) ==
  [tickLower |-> alignTick(rawLower, spacing, "down"),
   tickUpper |-> alignTick(rawUpper, spacing, "up")]

\* ---- inputs
MaxTickOffset == 2   \* raw ticks lie within this distance of 0 and of the two limits
RawTicks ==
  ((0 - 887272 - MaxTickOffset)..(0 - 887272 + MaxTickOffset))
    \cup ((0 - MaxTickOffset)..MaxTickOffset)
    \cup ((887272 - MaxTickOffset)..(887272 + MaxTickOffset))
\* the floor of the lower raw tick and the ceiling of the upper one, of two
\* raw ticks of which the lower is below the upper
RawRanges == {rg \in RawTicks \X RawTicks : rg[1] < rg[2]}
\* the writes the wallet is asked for: approvals as needed, then the mint
AddWrites(needs, lower, upper) ==
  (IF needs[1] THEN <<[tx |-> "approve", token |-> 0]>> ELSE <<>>)
    \o (IF needs[2] THEN <<[tx |-> "approve", token |-> 1]>> ELSE <<>>)
    \o <<[tx |-> "mint", tickLower |-> lower, tickUpper |-> upper]>>

\* A card with its two tokens chosen from the list and an amount entered; the
\* pool of the pair and its tick spacing are what the chain holds
InitAdd ==
  /\ mCard \in {"fullRange", "preset"}
  /\ mAddress \in BOOLEAN /\ mWalletClient \in BOOLEAN
  /\ mPool \in [found : BOOLEAN, spacing : {feeToTickSpacing(f) : f \in FeeTiers}]
  /\ mPoolAddress = Null /\ mTickSpacing = Null
  /\ mTickLower = Null /\ mTickUpper = Null /\ mSource = "none"
  /\ mSent = <<>> /\ mTxErr = Null /\ mPc = "detect"

\* lines 146-182: the pool effect of the full-range card
AddDetectFullRange ==
  /\ mPc = "detect" /\ mCard = "fullRange"
  /\ IF mPool.found
     THEN /\ mPoolAddress' = ErrText("pool")
          /\ mTickLower' = Num(getFullRangeTicks(mPool.spacing).tickLower)
          /\ mTickUpper' = Num(getFullRangeTicks(mPool.spacing).tickUpper)
          /\ mSource' = "full"
     ELSE UNCHANGED <<mPoolAddress, mTickLower, mTickUpper, mSource>>
  /\ mPc' = "ready"
  /\ UNCHANGED <<mCard, mAddress, mWalletClient, mPool, mTickSpacing, mSent, mTxErr>>
  /\ UNCHANGED mOthers

\* lines 738-848: the pool effect of the preset card, for the preset 'full'
\* and for a percent preset
AddDetectPreset ==
  /\ mPc = "detect" /\ mCard = "preset"
  /\ IF mPool.found
     THEN /\ mPoolAddress' = ErrText("pool")
          /\ mTickSpacing' = Num(mPool.spacing)
          /\ \/ /\ mTickLower' = Num(ticksFromPreset(mPool.spacing).tickLower)
                /\ mTickUpper' = Num(ticksFromPreset(mPool.spacing).tickUpper)
                /\ mSource' = "full"
             \/ \E rg \in RawRanges :
                  /\ mTickLower' = Num(ticksFromPercent(rg[1], rg[2], mPool.spacing).tickLower)
                  /\ mTickUpper' = Num(ticksFromPercent(rg[1], rg[2], mPool.spacing).tickUpper)
                  /\ mSource' = "percent"
     ELSE UNCHANGED <<mPoolAddress, mTickSpacing, mTickLower, mTickUpper, mSource>>
  /\ mPc' = "ready"
  /\ UNCHANGED <<mCard, mAddress, mWalletClient, mPool, mSent, mTxErr>>
  /\ UNCHANGED mOthers

\* lines 850-878: the manual price range of the preset card, minP < maxP
AddManualRange ==
  /\ mPc = "ready" /\ mCard = "preset" /\ mSource \in {"full", "percent"}
  /\ mTickSpacing # Null
  /\ \E rg \in RawRanges :
       /\ mTickLower' = Num(alignTick(rg[1], mTickSpacing.v, "down"))
       /\ mTickUpper' = Num(alignTick(rg[2], mTickSpacing.v, "up"))
  /\ mSource' = "manual"
  /\ UNCHANGED <<mCard, mAddress, mWalletClient, mPool, mPoolAddress, mTickSpacing, mSent,
                 mTxErr, mPc>>
  /\ UNCHANGED mOthers

\* lines 301-307 and 1204-1210: the button is disabled (the tokens are chosen,
\* the pool is loaded and an amount is entered)
disableAdd == ~mAddress \/ ~mPool.found

\* the approvals and the mint of onAdd (lines 253-298, 1153-1201): each side
\* may need an approval, and the wallet may refuse the k-th write
AddSend(lower, upper) ==
  \E needs \in BOOLEAN \X BOOLEAN, refused \in 0..3 :
    LET writes == AddWrites(needs, lower, upper) IN
    /\ refused <= Len(writes)
    /\ IF refused = 0
       THEN mSent' = writes /\ mTxErr' = Null
       ELSE mSent' = SubSeq(writes, 1, refused - 1) /\ mTxErr' = ErrText("Mint failed")

\* lines 224-299: onAdd of the full-range card
OnAddFullRange ==
  /\ mPc = "ready" /\ mCard = "fullRange" /\ ~disableAdd
  /\ IF ~mWalletClient
     THEN mTxErr' = ErrText("Connect wallet first") /\ mSent' = mSent
     ELSE IF mPoolAddress = Null \/ mTickLower = Null \/ mTickUpper = Null
     THEN mTxErr' = ErrText("Pool not ready yet") /\ mSent' = mSent
     ELSE AddSend(mTickLower.v, mTickUpper.v)
  /\ mPc' = "added"
  /\ UNCHANGED <<mCard, mAddress, mWalletClient, mPool, mPoolAddress, mTickSpacing,
                 mTickLower, mTickUpper, mSource>>
  /\ UNCHANGED mOthers

\* (mutant of rangeError: the alignment of the ticks is not looked at)
rangeError_orderOnly(lower, upper, spacing) ==
  IF lower >= upper THEN ErrText("Invalid range: min tick must be below max tick")
  ELSE Null

\* lines 1124-1134: the two checks of the range; null if the range passes
\* (Math.trunc of a whole tick is that tick)
rangeError(lower, upper, spacing) ==
  IF lower >= upper THEN ErrText("Invalid range: min tick must be below max tick")
  ELSE IF lower % spacing # 0 \/ upper % spacing # 0
  THEN ErrText("Invalid range: ticks must align to spacing")
  ELSE Null

\* lines 1111-1202: onAdd of the preset card
OnAddPreset ==
  /\ mPc = "ready" /\ mCard = "preset" /\ ~disableAdd
  /\ IF ~mWalletClient
     THEN mTxErr' = ErrText("Connect wallet first") /\ mSent' = mSent
     ELSE IF mPoolAddress = Null \/ mTickLower = Null \/ mTickUpper = Null
             \/ mTickSpacing = Null
     THEN mTxErr' = ErrText("Pool not ready yet") /\ mSent' = mSent
     ELSE IF rangeError(mTickLower.v, mTickUpper.v, mTickSpacing.v) # Null
     THEN /\ mTxErr' = rangeError(mTickLower.v, mTickUpper.v, mTickSpacing.v)
          /\ mSent' = mSent
     ELSE AddSend(mTickLower.v, mTickUpper.v)
  /\ mPc' = "added"
  /\ UNCHANGED <<mCard, mAddress, mWalletClient, mPool, mPoolAddress, mTickSpacing,
                 mTickLower, mTickUpper, mSource>>
  /\ UNCHANGED mOthers

\* ------------------------------------- the runs of the effect of useQuote (SpecHook)
MaxQuoteRuns == 2   \* the effect of useQuote runs at most this often

\* the dependencies of the effect (useQuote line 79); decIn follows tokenIn
HookInputs ==
  [client : BOOLEAN, tokenIn : {NoToken, TokA}, tokenOut : {TokA, TokB},
   amount : {AmountEmpty, Decimal(FALSE, 1, 0)}, fee : {500, 3000}]

\* (mutant of mayWrite: the run writes whether or not it is still active)
mayWrite_always(run) == TRUE

\* useQuote lines 63 and 66: a run writes after its await only while active
mayWrite(run) == run.active

\* lines 42-51: what the run does before its await: "throw" with the message,
\* "return", or "await" (quoteExactInSingle was called)
hookStart(in) ==
  IF ~in.client THEN [does |-> "throw", msg |-> ErrText("No public client")]
  ELSE IF ~IsSet(in.tokenIn) \/ ~IsSet(in.tokenOut) THEN [does |-> "return", msg |-> Null]
  ELSE IF toLowerCase(in.tokenIn) = toLowerCase(in.tokenOut)
  THEN [does |-> "throw", msg |-> ErrText("Pick two different tokens")]
  ELSE IF amountRejected(in.amount) THEN [does |-> "return", msg |-> Null]
  ELSE [does |-> "await", msg |-> Null]

\* lines 76-78: the cleanup of the effect clears the flag of its run
hookCleanup(runs) == [i \in 1..Len(runs) |-> [runs[i] EXCEPT !.active = FALSE]]

\* lines 34-75: the effect runs for the inputs in: the cleanup of the run
\* before, then run() up to its await or to its end
hookRun(in) ==
  LET st == hookStart(in) IN
  /\ hInputs' = in
  /\ hRuns' = Append(hookCleanup(hRuns),
                     [inputs |-> in, active |-> TRUE, pending |-> st.does = "await"])
  /\ hAmountOut' = Null /\ hOutOf' = 0
  /\ hError' = st.msg
  /\ hErrOf' = IF st.does = "throw" THEN Len(hRuns) + 1 ELSE 0
  /\ hLoading' = (st.does = "await")
  /\ hPc' = "live"

InitHook ==
  /\ hInputs \in HookInputs
  /\ hRuns = <<>> /\ hAmountOut = Null /\ hError = Null /\ hLoading = FALSE
  /\ hOutOf = 0 /\ hErrOf = 0 /\ hPc = "mount"

\* the effect after the first render
HookMount ==
  /\ hPc = "mount"
  /\ hookRun(hInputs)
  /\ UNCHANGED hOthers

\* a dependency changed: the effect runs again
HookChange ==
  /\ hPc = "live" /\ Len(hRuns) < MaxQuoteRuns
  /\ \E in \in HookInputs : in # hInputs /\ hookRun(in)
  /\ UNCHANGED hOthers

\* lines 55-71: quoteExactInSingle of a run settles, with an amount or with an
\* error
HookSettle ==
  /\ hPc = "live"
  /\ \E i \in 1..Len(hRuns) :
       /\ hRuns[i].pending
       /\ hRuns' = [hRuns EXCEPT ![i].pending = FALSE]
       /\ \E r \in {Throws} \cup {Ok(BigIntV(n)) : n \in 0..MaxQuote} :
            IF ~mayWrite(hRuns[i])
            THEN UNCHANGED <<hAmountOut, hError, hLoading, hOutOf, hErrOf>>
            ELSE /\ hLoading' = FALSE
                 /\ IF r.ok
                    THEN /\ hAmountOut' = r.value /\ hOutOf' = i
                         /\ UNCHANGED <<hError, hErrOf>>
                    ELSE /\ hError' = ErrText("Quote failed") /\ hErrOf' = i
                         /\ UNCHANGED <<hAmountOut, hOutOf>>
  /\ UNCHANGED <<hInputs, hPc>>
  /\ UNCHANGED hOthers

\* --------------------------- the allowance checks of the swap card (SpecAllow)
MaxAllowance == 2      \* amounts and allowances range over 0..MaxAllowance
MaxAllowChanges == 2   \* input changes explored after the mount

AllowTokens == {<<1, 1>>, <<2, 1>>}

\* part_015 lines 599-602
enough(amountInWei, erc20Allowance, p2Amount) ==
  amountInWei > 0 /\ erc20Allowance >= amountInWei /\ p2Amount >= amountInWei

\* lines 617-625 with 569-581: the effect on [publicClient, address, tokenIn,
\* amountInWei]: hasAllowance is cleared, or checkAllowance runs up to its await
AllowEffect(tokenIn, amountInWei) ==
  IF ~kConnected \/ ~IsSet(tokenIn) \/ amountInWei = 0
  THEN /\ kHasAllowance' = FALSE
       /\ UNCHANGED <<kChecks, kCheckingAllowance>>
  ELSE /\ kCheckingAllowance' = TRUE
       /\ kChecks' = Append(kChecks, [tokenIn |-> tokenIn, amountInWei |-> amountInWei])
       /\ UNCHANGED kHasAllowance

InitAllow ==
  /\ kConnected \in BOOLEAN
  /\ kTokenIn \in {NoToken} \cup AllowTokens
  /\ kAmountInWei \in 0..MaxAllowance
  /\ kChain \in [AllowTokens -> [erc20 : 0..MaxAllowance, permit2 : {0, MaxAllowance}]]
  /\ kChecks = <<>> /\ kHasAllowance = FALSE /\ kCheckingAllowance = FALSE
  /\ kStatus = Null /\ kSwaps = <<>> /\ kBudget = MaxAllowChanges /\ kPc = "mount"

\* the effect after the first render
AllowMount ==
  /\ kPc = "mount"
  /\ AllowEffect(kTokenIn, kAmountInWei)
  /\ kPc' = "live"
  /\ UNCHANGED <<kConnected, kTokenIn, kAmountInWei, kChain, kStatus, kSwaps, kBudget>>
  /\ UNCHANGED kOthers

\* the amount field or the token selector changes: the effect runs again
AllowInputChange ==
  /\ kPc = "live" /\ kBudget > 0
  /\ \E tokenIn \in AllowTokens, amountInWei \in 0..MaxAllowance :
       /\ <<tokenIn, amountInWei>> # <<kTokenIn, kAmountInWei>>
       /\ kTokenIn' = tokenIn /\ kAmountInWei' = amountInWei
       /\ AllowEffect(tokenIn, amountInWei)
  /\ kBudget' = kBudget - 1
  /\ UNCHANGED <<kConnected, kChain, kStatus, kSwaps, kPc>>
  /\ UNCHANGED kOthers

\* lines 595-612: the two reads of a checkAllowance call settle, or one of
\* them rejects
AllowSettle ==
  /\ kPc = "live"
  /\ \E i \in 1..Len(kChecks), rejects \in BOOLEAN :
       /\ kChecks' = [j \in 1..(Len(kChecks) - 1) |-> IF j < i THEN kChecks[j] ELSE kChecks[j + 1]]
       /\ kHasAllowance' =
            IF rejects THEN FALSE
            ELSE enough(kChecks[i].amountInWei, kChain[kChecks[i].tokenIn].erc20,
                        kChain[kChecks[i].tokenIn].permit2)
       /\ kCheckingAllowance' = FALSE
  /\ UNCHANGED <<kConnected, kTokenIn, kAmountInWei, kChain, kStatus, kSwaps, kBudget, kPc>>
  /\ UNCHANGED kOthers

\* lines 781-793: onSwap with a wallet, a route and a quote: it asks for the
\* approval, or goes on to swap amountInWei
AllowSwap ==
  /\ kPc = "live" /\ kConnected /\ IsSet(kTokenIn) /\ Len(kSwaps) < MaxAllowChanges
  /\ IF ~kHasAllowance
     THEN /\ kStatus' = ErrText("Please approve token spending first.")
          /\ UNCHANGED kSwaps
     ELSE /\ kSwaps' = Append(kSwaps, [tokenIn |-> kTokenIn, amountInWei |-> kAmountInWei])
          /\ UNCHANGED kStatus
  /\ UNCHANGED <<kConnected, kTokenIn, kAmountInWei, kChain, kChecks, kHasAllowance,
                 kCheckingAllowance, kBudget, kPc>>
  /\ UNCHANGED kOthers

\* ------------------------------------------------------ inputs (SpecEnum)
SmallLists == SeqsUpTo(SmallAddrs, MaxListLen)
\* long lists: BigLen distinct tokens; the same with the second entry repeating
\* the first in another casing; a list of exactly MAX_TOKENS tokens
BigLists ==
  { [k \in 1..BigLen |-> <<k, k % 2>>],
    [k \in 1..BigLen |-> IF k = 2 THEN <<1, 0>> ELSE <<k, k % 2>>],
    [k \in 1..MAX_TOKENS |-> <<k, 0>>] }
TokenLists == SmallLists \cup BigLists

InitEnum ==
  /\ eList \in TokenLists
  /\ eRoute \in {"buffered", "stream"}
  /\ eCalls = <<>>
  /\ ePc = "start"

\* GET of route.ts, lines 192-217 (route.ts answers 400 on an empty list)
EnumBuffered ==
  /\ ePc = "start" /\ eRoute = "buffered" /\ Len(eList) > 0
  /\ eCalls' = bufferedCalls(eList)
  /\ ePc' = "done"
  /\ UNCHANGED <<eList, eRoute>>
  /\ UNCHANGED eOthers

\* GET of stream/route.ts, lines 77-132
EnumStream ==
  /\ ePc = "start" /\ eRoute = "stream"
  /\ eCalls' = streamCalls(eList)
  /\ ePc' = "done"
  /\ UNCHANGED <<eList, eRoute>>
  /\ UNCHANGED eOthers

\* --------------------------------------------------------- specifications
NextEnum == EnumBuffered \/ EnumStream
InitSpecEnum == InitEnum /\ pIdle /\ qIdle /\ dIdle /\ sIdle /\ rIdle /\ uIdle /\ vIdle /\ aIdle /\ xIdle /\ mIdle /\ hIdle /\ kIdle
SpecEnum == InitSpecEnum /\ [][NextEnum]_vars


NextPool == PoolCall \/ PoolRead
InitSpecPool == InitPool /\ eIdle /\ pIdle /\ dIdle /\ sIdle /\ rIdle /\ uIdle /\ vIdle /\ aIdle /\ xIdle /\ mIdle /\ hIdle /\ kIdle
SpecPool == InitSpecPool /\ [][NextPool]_vars

NextDisc == DiscExistence \/ DiscFallback \/ DiscReturnEmpty \/ DiscStateProbe
InitSpecDisc == InitDisc /\ eIdle /\ pIdle /\ qIdle /\ sIdle /\ rIdle /\ uIdle /\ vIdle /\ aIdle /\ xIdle /\ mIdle /\ hIdle /\ kIdle
SpecDisc == InitSpecDisc /\ [][NextDisc]_vars

NextStream == StreamStart \/ StreamExistence \/ StreamState
InitSpecStream == InitStream /\ eIdle /\ pIdle /\ qIdle /\ dIdle /\ rIdle /\ uIdle /\ vIdle /\ aIdle /\ xIdle /\ mIdle /\ hIdle /\ kIdle
SpecStream == InitSpecStream /\ [][NextStream]_vars

NextRoute ==
  RouteMount \/ SetTokenIn \/ SetTokenOut \/ FlipTokens \/ TokensHydrate \/ ClientReady
    \/ RouteDirectSettled \/ RouteViaSettled
InitSpecRoute == InitRoute /\ eIdle /\ pIdle /\ qIdle /\ dIdle /\ sIdle /\ uIdle /\ vIdle /\ aIdle /\ xIdle /\ mIdle /\ hIdle /\ kIdle
SpecRoute == InitSpecRoute /\ [][NextRoute]_vars

NextProbe == ProbeIssue \/ ProbeChunk \/ DirectSettle \/ DirectJoin \/ ProbeReturn
InitSpecProbe == InitProbe /\ eIdle /\ qIdle /\ dIdle /\ sIdle /\ rIdle /\ uIdle /\ vIdle /\ aIdle /\ xIdle /\ mIdle /\ hIdle /\ kIdle
SpecProbe == InitSpecProbe /\ [][NextProbe]_vars

NextQuote ==
  \/ QuoteStart
  \/ QuotePoolSettled
  \/ QuoterSettled
InitSpecQuote == InitQuote /\ eIdle /\ pIdle /\ qIdle /\ dIdle /\ sIdle /\ rIdle /\ vIdle /\ aIdle /\ xIdle /\ mIdle /\ hIdle /\ kIdle
SpecQuote == InitSpecQuote /\ [][NextQuote]_vars

NextSlip ==
  \/ SlipEdit
  \/ SlipPreset
  \/ SlipQuote
InitSpecSlip == InitSlip /\ eIdle /\ pIdle /\ qIdle /\ dIdle /\ sIdle /\ rIdle /\ uIdle /\ aIdle /\ xIdle /\ mIdle /\ hIdle /\ kIdle
SpecSlip == InitSpecSlip /\ [][NextSlip]_vars

NextTicks ==
  \/ FullRangeDetect
  \/ PresetDetect
InitSpecTicks == InitTicks /\ eIdle /\ pIdle /\ qIdle /\ dIdle /\ sIdle /\ rIdle /\ uIdle /\ vIdle /\ xIdle /\ mIdle /\ hIdle /\ kIdle
SpecTicks == InitSpecTicks /\ [][NextTicks]_vars

NextUnwrap ==
  \/ UnwrapCall
InitSpecUnwrap == InitUnwrap /\ eIdle /\ pIdle /\ qIdle /\ dIdle /\ sIdle /\ rIdle /\ uIdle /\ vIdle /\ aIdle /\ mIdle /\ hIdle /\ kIdle
SpecUnwrap == InitSpecUnwrap /\ [][NextUnwrap]_vars

NextAdd ==
  \/ AddDetectFullRange
  \/ AddDetectPreset
  \/ AddManualRange
  \/ OnAddFullRange
  \/ OnAddPreset
InitSpecAdd == InitAdd /\ eIdle /\ pIdle /\ qIdle /\ dIdle /\ sIdle /\ rIdle /\ uIdle /\ vIdle /\ aIdle /\ xIdle /\ hIdle /\ kIdle
SpecAdd == InitSpecAdd /\ [][NextAdd]_vars

NextHook ==
  \/ HookMount
  \/ HookChange
  \/ HookSettle
InitSpecHook == InitHook /\ eIdle /\ pIdle /\ qIdle /\ dIdle /\ sIdle /\ rIdle /\ uIdle /\ vIdle /\ aIdle /\ xIdle /\ mIdle /\ kIdle
SpecHook == InitSpecHook /\ [][NextHook]_vars

NextAllow ==
  \/ AllowMount
  \/ AllowInputChange
  \/ AllowSettle
  \/ AllowSwap
InitSpecAllow == InitAllow /\ eIdle /\ pIdle /\ qIdle /\ dIdle /\ sIdle /\ rIdle /\ uIdle /\ vIdle /\ aIdle /\ xIdle /\ mIdle /\ hIdle
SpecAllow == InitSpecAllow /\ [][NextAllow]_vars

\* ------------------------------------------------------------ claim C4
\* positions of the first MAX_TOKENS list entries that hold the first occurrence
\* of their lower-cased address
FirstOccurrences(list) ==
  {k \in 1..Min(Len(list), 120) :
     \A j \in 1..(k - 1) : toLowerCase(list[j]) # toLowerCase(list[k])}
\* 1-based place of pair (i, j), i < j, in the lexicographic order of the pairs of 1..n
PairRank(i, j, n) == (i - 1) * n - ((i * (i - 1)) \div 2) + (j - i)
ExpectedFees == <<100, 500, 3000, 10000>>

\* C4: the calls generated by discovery are exactly the unordered pairs (i<j), in
\* lexicographic index order, of the de-duplicated lower-cased addresses of the
\* first 120 tokens, cut to the first 4000 pairs, each crossed with the fees
\* 100, 500, 3000, 10000 in that order; token0 < token1 strictly in every call,
\* no (pair, fee) occurs twice, at most 16000 calls; the sequence is a function
\* of the list alone (both routes, and any two runs, produce it).
C4_Enumeration ==
  ePc = "done" =>
    \A F \in {FirstOccurrences(eList)} :
      LET n == Cardinality(F)
          pos(k) == Cardinality({j \in F : j <= k})
          np == Min(4000, (n * (n - 1)) \div 2)
      IN  /\ Len(eCalls) = 4 * np
          /\ Len(eCalls) <= 16000
          /\ \A k1 \in F : \A k2 \in F :
                (k1 < k2 /\ PairRank(pos(k1), pos(k2), n) <= 4000) =>
                  \A f \in 1..4 :
                    LET c == eCalls[(PairRank(pos(k1), pos(k2), n) - 1) * 4 + f]
                        a == toLowerCase(eList[k1])
                        b == toLowerCase(eList[k2])
                    IN  /\ c.functionName = "getPool"
                        /\ c.args = <<IF a[1] < b[1] THEN a ELSE b,
                                      IF a[1] < b[1] THEN b ELSE a,
                                      ExpectedFees[f]>>
          /\ \A k \in 1..Len(eCalls) :
                /\ eCalls[k].args[1][1] < eCalls[k].args[2][1]
                /\ eCalls[k].args[1][2] = 0 /\ eCalls[k].args[2][2] = 0
          /\ Cardinality({<<{eCalls[k].args[1], eCalls[k].args[2]}, eCalls[k].args[3]>> :
                            k \in 1..Len(eCalls)}) = Len(eCalls)

\* both caps bite: more than 120 tokens listed, more than 4000 pairs, 16000 calls
C4_Witness == ePc = "done" /\ Len(eList) > 120 /\ Len(eCalls) = 16000

\* ------------------------------------------------------ claims C1, C2
\* C1: multicallChunked returns exactly one entry per input call, entry i being
\* the outcome of call i (a failure, or success with the value of call i),
\* whatever the aggregated backend does.
C1_OnePerCall ==
  pPc = "done" =>
    /\ Len(pOut) = Len(pCalls)
    /\ \A i \in 1..Len(pOut) :
         pOut[i] = Failure \/ pOut[i] = Success(<<"value", pCalls[i]>>)

\* C2: the per-call reads of a chunk are joined only after every one has
\* settled; a failed call yields Failure, a succeeded call Success with its
\* own value, in every completion order; no exception leaves multicallChunked.
C2_FanIn ==
  /\ pPc # "threw"
  /\ \A k \in 1..Len(pOut) :
       pSrc[k].how \in {"direct", "sequential"} =>
         /\ pSrc[k].pendingAtJoin = 0
         /\ pOut[k] = IF pSrc[k].call \in pFail THEN Failure
                      ELSE Success(<<"value", pSrc[k].call>>)

\* a chunk of three per-call reads, settled last-to-first, one failed and two
\* succeeded, has been joined
C2_Witness ==
  /\ pPc = "done" /\ Len(pOut) = 3 /\ pChunk = 3
  /\ pOrder = <<3, 2, 1>>
  /\ pSrc[1].how = "direct"
  /\ pOut[1] = Success(<<"value", 1>>) /\ pOut[2] = Failure /\ pOut[3] = Success(<<"value", 3>>)

\* ------------------------------------------------------------ claim C5
\* C5: for a and b that differ case-insensitively, sortTokens(a,b) and
\* sortTokens(b,a) return the same (token0, token1), with lower(token0) <
\* lower(token1); for a and b equal case-insensitively sortTokens throws, and
\* getPoolAddress / findPool then end in the error without any chain read.
C5_SortTokens ==
  qPc \in {"reading", "done"} =>
    IF toLowerCase(qA) = toLowerCase(qB)
    THEN /\ qSorted = [threw |-> TRUE]
         /\ qPc = "done" /\ qResult = [kind |-> "error"] /\ qReads = <<>>
    ELSE /\ ~qSorted.threw
         /\ qSorted.token0 = sortTokens(qB, qA).token0
         /\ qSorted.token1 = sortTokens(qB, qA).token1
         /\ {qSorted.token0, qSorted.token1} = {qA, qB}
         /\ toLowerCase(qSorted.token0)[1] < toLowerCase(qSorted.token1)[1]
         /\ Len(qReads) = 1
         /\ qReads[1].args = <<qSorted.token0, qSorted.token1, qFee>>

\* the same address in two casings was passed: the call ended without a read
C5_WitnessEqual ==
  qPc = "done" /\ qA # qB /\ toLowerCase(qA) = toLowerCase(qB) /\ qReads = <<>>

\* --------------------------------------------------- claims C3, C6, C7
\* what reading every (pair, fee) call of the list on its own discovers: the
\* entries of the calls whose read succeeds with a non-zero address
IndependentReadsFound(list, chain) ==
  LET calls == bufferedCalls(list) IN
  { [pool |-> readContract(chain, calls[k]).value.v,
     token0 |-> calls[k].args[1], token1 |-> calls[k].args[2], fee |-> calls[k].args[3]] :
      k \in {j \in 1..Len(calls) :
               /\ readContract(chain, calls[j]).ok
               /\ toLowerCase(readContract(chain, calls[j]).value.v) # ZeroAddress} }
SeqRange(xs) == {xs[k] : k \in 1..Len(xs)}

\* C3: when the aggregated backend throws on every chunk, the entries buffered
\* discovery collects as found are those found by independent per-call reads
\* of the same chain.
C3_ThrowingBackendEquivalence ==
  (dPc \in {"afterFirst", "afterFallback"} /\ dHasMc /\ dPolicy[1] = "throw") =>
    SeqRange(dFound) = IndependentReadsFound(dList, chainFor(dPools, dFailGet, dFailState))

\* the backend threw on each of several chunks, a read failed, pools were found
C3_Witness ==
  /\ dPc = "afterFirst" /\ dHasMc /\ dPolicy[1] = "throw"
  /\ dAgg > 1 /\ dFailGet # {} /\ Len(dFound) = 2

\* the state a row must carry for its pool: the chain's, or absent
ExpectedSlot0(pool) ==
  [sqrtPriceX96 |-> [t |-> "decimal", v |-> SqrtOf(pool)], tick |-> Num(TickOf(pool))]
RowStateOk(row) ==
  /\ row.slot0 \in {Null, ExpectedSlot0(row.pool)}
  /\ row.liquidity \in {[t |-> "decimal", v |-> 0], [t |-> "decimal", v |-> LiqOf(row.pool)]}
  /\ row.tickSpacing \in {Num(0), Num(SpacingOf(row.pool))}
  /\ (<<row.pool[1], "slot0">> \in dFailState => row.slot0 = Null)
  /\ (<<row.pool[1], "liquidity">> \in dFailState => row.liquidity = [t |-> "decimal", v |-> 0])
  /\ (<<row.pool[1], "tickSpacing">> \in dFailState => row.tickSpacing = Num(0))

\* C6: buffered discovery returns exactly one row per (pair, fee) call whose
\* existence probe succeeded with a non-zero address and none for the others;
\* a row carries token0, token1 and fee of the call that produced its pool
\* address and the state of that pool; a failed state read leaves the pool in
\* the result, its state absent.
C6_RowsMatchProbes ==
  /\ dResponse.kind # "error"
  /\ dResponse.kind = "rows" =>
       LET rows == dResponse.rows IN
       /\ Len(rows) = Cardinality({k \in 1..Len(dRes) : Truthy(unwrapAddress(dRes[k]))
                                      /\ unwrapAddress(dRes[k]).v # ZeroAddress})
       /\ Cardinality({<<rows[i].token0, rows[i].token1, rows[i].fee>> : i \in 1..Len(rows)})
            = Len(rows)
       /\ \A i \in 1..Len(rows) :
            /\ <<rows[i].token0[1], rows[i].token1[1], rows[i].fee>> \in dPools \ dFailGet
            /\ rows[i].pool = PoolAddr(rows[i].token0, rows[i].token1, rows[i].fee)
            /\ RowStateOk(rows[i])

\* C7: 'no pools found' is concluded only after the reduced fallback scan; the
\* scan runs exactly once iff the first existence pass found no pool, reads
\* call by call (no aggregated attempt) the first min(1500, capped pairs) pairs
\* with the fees in the order 3000, 500, 100, 10000, and every pool it finds
\* is state-probed and returned.
FallbackFees == <<3000, 500, 100, 10000>>
\* the address of a pair that is lower, higher as a lower-cased string
LowerOf(pair) == IF pair[1][1] < pair[2][1] THEN pair[1] ELSE pair[2]
HigherOf(pair) == IF pair[1][1] < pair[2][1] THEN pair[2] ELSE pair[1]
C7_FallbackScan ==
  /\ Len(dFallback) <= 1
  /\ dResponse.kind = "empty" => Len(dFallback) = 1
  /\ dPc \in {"afterFallback", "done"} /\ dResponse.kind # "error" =>
       (Len(dFallback) = 1 <=> dFirstFound = <<>>)
  /\ Len(dFallback) = 1 =>
       \A pairs \in {pairsCapped(dList)} :
         LET n == Min(1500, Len(pairs)) IN
         /\ Len(dFallback[1]) = 4 * n
         /\ \A p \in 1..n : \A f \in 1..4 :
              /\ dFallback[1][(p - 1) * 4 + f].functionName = "getPool"
              /\ dFallback[1][(p - 1) * 4 + f].args =
                   <<LowerOf(pairs[p]), HigherOf(pairs[p]), FallbackFees[f]>>
         /\ dAgg = (IF dPc = "done" /\ dResponse.kind = "rows" THEN 1 ELSE 0)
                     + (Len(pairs) * 4 + 199) \div 200
         /\ dResponse.kind = "rows" =>
              /\ {dResponse.rows[i].pool : i \in 1..Len(dResponse.rows)} =
                   { PoolAddr(LowerOf(pairs[x[1]]), HigherOf(pairs[x[1]]), FallbackFees[x[2]]) :
                       x \in { y \in (1..n) \X (1..4) :
                          <<LowerOf(pairs[y[1]])[1], HigherOf(pairs[y[1]])[1], FallbackFees[y[2]]>>
                             \in dPools \ dFailGet } }
              /\ \A i \in 1..Len(dResponse.rows) :
                   \A fn \in {"slot0", "liquidity", "tickSpacing"} :
                     stateCall(dResponse.rows[i].pool, fn) \in SeqRange(dStateCalls)

\* the first pass found nothing on the long list, the fallback scan found the
\* pool among the first 1500 pairs (not the one past them) and it was returned
C7_Witness ==
  /\ dResponse.kind = "rows" /\ Len(dFallback) = 1
  /\ Len(dFallback[1]) = 6000
  /\ Cardinality(dPools) = 2 /\ Len(dResponse.rows) = 1
  /\ dResponse.rows[1].slot0 # Null

\* ------------------------------------------------------ claims C8, C9
LinesBefore(k, types) == Cardinality({j \in 1..(k - 1) : sLines[j].type \in types})

StreamEmits(c) ==
  /\ <<c.args[1][1], c.args[2][1], c.args[3]>> \in sPools \ sFailGet
  /\ \A fn \in {"slot0", "liquidity", "tickSpacing"} :
       <<PoolAddr(c.args[1], c.args[2], c.args[3])[1], fn>> \notin sFailState
IsPoolLine(l) == l.type = "pool"
LogCount(e) == Cardinality({k \in 1..Len(sLog) : sLog[k].e = e})

\* C9: no failing existence read and no failing state read ends the stream or
\* puts an error line on it; the run processes every batch, emits in call order
\* exactly the pools whose existence read and three state reads succeed, each
\* with its own state, and ends with the summary line and the close.
C9_StreamKeepsGoing ==
  /\ \A k \in 1..Len(sLines) : sLines[k].type # "error"
  /\ sClosed => sPc = "done"
  /\ sPc = "done" =>
       /\ sClosed /\ sLines[Len(sLines)].type = "summary"
       /\ LogCount("existence") = (Len(pairsCapped(sList)) + 49) \div 50
       /\ LogCount("state") = Cardinality({k \in sPools \ sFailGet :
                                  \E i, j \in 1..Len(sList) :
                                     i # j /\ sList[i][1] = k[1] /\ sList[j][1] = k[2]})
       /\ LET exp == SelectSeq(streamCalls(sList), StreamEmits)
              got == SelectSeq(sLines, IsPoolLine)
          IN  /\ Len(got) = Len(exp)
              /\ \A i \in 1..Len(got) :
                   /\ got[i].pool = PoolAddr(exp[i].args[1], exp[i].args[2], exp[i].args[3])
                   /\ got[i].fee = exp[i].args[3]
                   /\ {got[i].token0, got[i].token1} = {exp[i].args[1], exp[i].args[2]}
                   /\ got[i].liquidity = [t |-> "decimal", v |-> LiqOf(got[i].pool)]
                   /\ got[i].tickSpacing = Num(SpacingOf(got[i].pool))
                   /\ got[i].slot0 = ExpectedSlot0(got[i].pool)

\* in one run an existence read of an existing pool failed, a state read of a
\* found pool failed, and a pool of the following batch was still emitted
C9_Witness ==
  /\ sPc = "done" /\ sB = 2 /\ Cardinality(sPools) = 3
  /\ sFailGet # {} /\ sFailState # {}
  /\ LogCount("state") = 2 /\ LogCount("emit") = 1
  /\ sLog[Len(sLog)].e = "emit" /\ sLog[Len(sLog)].batch = 2
  /\ sLines[Len(sLines)] = summaryLine(1)

\* ---------------------------------------------------------- claim C10
\* the entry of the direct pool of the run that returned last, per fee tier
LastDirect(fee) == poolEntry(rChain, rLast.tokenIn[1], rLast.tokenOut[1], fee)
\* a read that belongs to the via-intermediary candidate: a getPool with the
\* intermediary as a token, or the liquidity of a pool of the intermediary
IsViaRead(c) ==
  IF c.functionName = "getPool"
  THEN rLast.wethAddress[1] \in {c.args[1][1], c.args[2][1]}
  ELSE rLast.wethAddress[1] \in {c.address[1] \div 1000000, (c.address[1] \div 1000) % 1000}
ViaEvaluated == \E k \in 1..Len(rLast.reads) : IsViaRead(rLast.reads[k])
LastChoseDirect ==
  /\ rLast.outcome = "direct"
  /\ rLast.wrote.t = "route"
  /\ rLast.wrote.tokens = <<rLast.tokenIn, rLast.tokenOut>>
  /\ Len(rLast.wrote.fees) = 1
  /\ ~rLast.wrote.viaWeth
\* the run that returned last ran to its end for two tokens other than the
\* intermediary, with an intermediary configured
LastRanToEnd ==
  /\ rLast.ran /\ rLast.active
  /\ IsSet(rLast.wethAddress)
  /\ rLast.wethAddress[1] \notin {rLast.tokenIn[1], rLast.tokenOut[1]}

C11_ProbesTier100 ==
  (/\ rLast.ran /\ rLast.active
   /\ LastDirect(100).exists /\ LastDirect(100).getOk /\ LastDirect(100).liqOk
   /\ LastDirect(100).liq > 0
   /\ \A fee \in {500, 3000, 10000} : LastDirect(fee) = Absent)
    => /\ LastChoseDirect
       /\ rLast.wrote.fees = <<100>>
       /\ \E k \in 1..Len(rLast.reads) :
            rLast.reads[k].functionName = "getPool" /\ rLast.reads[k].args[3] = 100

\* ---------------------------------------------------------- claim C12
\* the tiers in the order the direct candidate iterates them
IterationOrder == <<500, 3000, 10000>>
\* the iterated tiers whose direct pool exists and is read successfully
LastReadable ==
  {k \in 1..Len(IterationOrder) :
     /\ LastDirect(IterationOrder[k]).exists /\ LastDirect(IterationOrder[k]).getOk
     /\ LastDirect(IterationOrder[k]).liqOk}
LastLiq(k) == LastDirect(IterationOrder[k]).liq

LastHop1(fee) == poolEntry(rChain, rLast.tokenIn[1], rLast.wethAddress[1], fee)
LastHop2(fee) == poolEntry(rChain, rLast.wethAddress[1], rLast.tokenOut[1], fee)
\* the iterated tiers at which both hop pools exist and are read
LastEligible ==
  {k \in 1..Len(IterationOrder) :
     /\ LastHop1(IterationOrder[k]).exists /\ LastHop2(IterationOrder[k]).exists
     /\ ~Failing(LastHop1(IterationOrder[k])) /\ ~Failing(LastHop2(IterationOrder[k]))}
LastScore(k) ==
  IF LastHop1(IterationOrder[k]).liq < LastHop2(IterationOrder[k]).liq
  THEN LastHop1(IterationOrder[k]).liq ELSE LastHop2(IterationOrder[k]).liq

LatestRunReturned ==
  rPc = "live" /\ \A k \in 1..Len(rRuns) : ~rRuns[k].active
RouteXorError ==
  \/ rRoute.t = "route" /\ rPoolErr = Null
  \/ rRoute = Null /\ rPoolErr = ErrText("No route found for this pair at supported fee tiers.")

\* C14 as stated: once the run for two distinct tokens has returned without
\* being superseded, either a route is set and no routing error, or the routing
\* error is set and the route is null.
C14_RouteOrError ==
  (LatestRunReturned /\ IsSet(rTokenIn) /\ IsSet(rTokenOut) /\ rTokenIn # rTokenOut)
    => RouteXorError

\* C14 (amended): the same for runs started with a chain client available; a
\* run started while the client is undefined returns at once with route and
\* routing error both null.
C14_RouteOrErrorWithClient ==
  /\ (LatestRunReturned /\ rClient /\ IsSet(rTokenIn) /\ IsSet(rTokenOut)
        /\ rTokenIn # rTokenOut) => RouteXorError
  /\ (LatestRunReturned /\ ~rClient) => (rRoute = Null /\ rPoolErr = Null)
  /\ ~(rRoute.t = "route" /\ rPoolErr # Null)

\* after an input change the run for the new inputs has ended with the routing
\* error and no route
C14_Witness ==
  /\ LatestRunReturned /\ rClient /\ rRuns = <<>> /\ rBudget < MaxChanges
  /\ rTokenIn # rTokenOut /\ IsSet(rTokenIn) /\ IsSet(rTokenOut)
  /\ rRoute = Null /\ rPoolErr # Null
  /\ rLast.ran /\ rLast.active /\ rLast.outcome = "none"

QuoterReads == SelectSeq(uReads, LAMBDA c : c.functionName = "quoteExactInputSingle")
Hops == Len(uPath.tokens) - 1
\* the read of the quoter for hop h of the route
IsHopRead(c, h) ==
  /\ c.args.tokenIn = uPath.tokens[h] /\ c.args.tokenOut = uPath.tokens[h + 1]
  /\ c.args.fee = uPath.fees[h]

\* C16: when a run of the quoting hook ends with a quote while the card holds a
\* route, the quoter has been called exactly once per hop of the route, hop by
\* hop in the order of the route: for a 2-hop route first (tokenIn -> mid, f1)
\* and then (mid -> tokenOut, f2); for a 1-hop route exactly once.
C16_QuotePerHop ==
  (uPc = "done" /\ uPath # Null /\ uAmountOut # Null) =>
     /\ Len(QuoterReads) = Hops
     /\ \A h \in 1..Hops : IsHopRead(QuoterReads[h], h)
\* ---------------------------------------------------------- claim C19
QuoteTokensSet == IsSet(uTokenIn) /\ IsSet(uTokenOut)
QuoteSameToken == QuoteTokensSet /\ toLowerCase(uTokenIn) = toLowerCase(uTokenOut)
\* the amount field holds a positive decimal numeral
QuoteAmountPositive == uAmount.kind = "decimal" /\ ~uAmount.neg /\ uAmount.mant > 0
QuoteBadAmount == QuoteTokensSet /\ ~QuoteSameToken /\ ~QuoteAmountPositive
\* the factory holds no pool for the tokens and the fee of the request
QuotePoolAbsent ==
  /\ QuoteTokensSet /\ ~QuoteSameToken /\ QuoteAmountPositive
  /\ ~poolEntry(uChain, uTokenIn[1], uTokenOut[1], uFee).exists
QuoteGuards ==
  /\ QuoteSameToken =>
       uError = ErrText("Pick two different tokens") /\ QuoterReads = <<>>
  /\ QuoteBadAmount => uError = Null /\ uAmountOut = Null /\ uReads = <<>>
  /\ QuotePoolAbsent => uError = ErrText("Pool not found") /\ QuoterReads = <<>>

\* C19 as stated: a finished quote request with tokenIn equal to tokenOut
\* (case-insensitively) has the error "Pick two different tokens" and no read of
\* the quoter; one for two different tokens whose amount is not finite or not
\* positive has no error, no amountOut and no chain read; one for two different
\* tokens and a positive amount whose pool is absent has the error "Pool not
\* found" and no read of the quoter.
C19_QuoteGuards == uPc = "done" => QuoteGuards

\* C19 (amended): the same, for requests made with a chain client; a request
\* made without a chain client ends with the error "No public client", no
\* amountOut and no chain read, whatever its tokens and amount.
C19_QuoteGuardsWithClient ==
  uPc = "done" =>
    IF uClient THEN QuoteGuards
    ELSE uError = ErrText("No public client") /\ uAmountOut = Null /\ uReads = <<>>

\* a request with a client, two different tokens and a positive amount ended
\* after its getPool read found no pool
C19_Witness ==
  /\ uPc = "done" /\ uClient /\ QuotePoolAbsent
  /\ Len(uReads) = 1 /\ uReads[1].functionName = "getPool"
  /\ uError = ErrText("Pool not found")
\* reachability of the other two cases
C19_SameTokenCase == uPc = "done" /\ uClient /\ QuoteSameToken /\ uTokenIn # uTokenOut
C19_BadAmountCase == uPc = "done" /\ uClient /\ QuoteBadAmount /\ uAmount.kind = "infinity"
\* ---------------------------------------------------------- claim C17
\* slippageBps is an integer of 0..5000
SlipInRange ==
  /\ vSlippageBps.kind = "fin" /\ vSlippageBps.den = 1
  /\ vSlippageBps.num >= 0 /\ vSlippageBps.num <= 5000
HasQuote == vAmountOut # Null /\ vAmountOut.v > 0
\* floor(a * b / 10000) for a, b >= 0
FloorShare(a, b) == (a \div 10000) * b + ((a % 10000) * b) \div 10000

\* C17: whenever amountOut > 0 and slippageBps is an integer in [0, 5000],
\* minOut = amountOut - floor(amountOut * slippageBps / 10000), so
\* 0 <= minOut <= amountOut; slippageBps = 0 gives minOut = amountOut, and
\* amountOut = 1000000 with slippageBps = 50 gives minOut = 995000.
C17_MinOut ==
  (HasQuote /\ SlipInRange) =>
    /\ vMinOut.ok
    /\ vMinOut.value.v = vAmountOut.v - FloorShare(vAmountOut.v, vSlippageBps.num)
    /\ 0 <= vMinOut.value.v /\ vMinOut.value.v <= vAmountOut.v
    /\ vSlippageBps.num = 0 => vMinOut.value.v = vAmountOut.v
    /\ (vAmountOut.v = 1000000 /\ vSlippageBps.num = 50) => vMinOut.value.v = 995000

\* the example of the claim: a quote of 1000000 at 50 bps after an edit
C17_Witness ==
  /\ vAmountOut = BigIntV(1000000) /\ vSlippageBps = JFin(50, 1)
  /\ vMinOut = Ok(BigIntV(995000)) /\ vEdits > 0
\* a quote whose share is rounded down: 199 at 5000 bps keeps 100
C17_Rounding ==
  vAmountOut = BigIntV(199) /\ vSlippageBps = JFin(5000, 1) /\ vMinOut = Ok(BigIntV(100))

\* ---------------------------------------------------------- claim C18
\* C18: at every moment the slippageBps used to compute minOut is an integer in
\* [0, 5000], the computation of minOut succeeds, and with a quote the minOut
\* is not negative and not below half of amountOut.
C18_SlippageClamped ==
  /\ SlipInRange
  /\ vMinOut.ok
  /\ HasQuote => (vMinOut.value.v >= 0 /\ 2 * vMinOut.value.v >= vAmountOut.v)
\* ---------------------------------------------------------- claim C20
CanonicalSpacings == {1, 10, 60, 200}
TicksSet == aPc = "done" /\ aTickLower # Null /\ aTickUpper # Null

\* C20: whenever a card has computed the full-range ticks of a pool whose tick
\* spacing is 1, 10, 60 or 200, tickLower and tickUpper are multiples of the
\* spacing, -887272 <= tickLower < tickUpper <= 887272, and for the spacing 60
\* they are -887220 and 887220.
C20_FullRangeTicks ==
  (TicksSet /\ aSpacing \in CanonicalSpacings) =>
    /\ aTickLower.v % aSpacing = 0 /\ aTickUpper.v % aSpacing = 0
    /\ 0 - 887272 <= aTickLower.v /\ aTickLower.v < aTickUpper.v /\ aTickUpper.v <= 887272
    /\ aSpacing = 60 => (aTickLower.v = 0 - 887220 /\ aTickUpper.v = 887220)
\* ---------------------------------------------------------- claim C21
\* the positions of the log that hold the given kind of event of chunk b
LogAt(e, how, b) ==
  {i \in 1..Len(pLog) : pLog[i].e = e /\ pLog[i].how = how /\ pLog[i].chunk = b}
\* the chunks whose aggregated attempt has settled
AttemptedChunks == {pLog[i].chunk : i \in {j \in 1..Len(pLog) :
                                             pLog[j].e = "settle" /\ pLog[j].how = "aggregated"}}
Attempt(b) == pLog[CHOOSE i \in LogAt("settle", "aggregated", b) : TRUE]
ChunkSlice(b) == slice(pCalls, (b - 1) * pChunk, b * pChunk)
\* the aggregated attempt threw, returned no results, or fewer than 5% of its
\* results are successes
AttemptFailed(b) ==
  \/ Attempt(b).threw
  \/ Len(Attempt(b).res) = 0
  \/ 100 * Cardinality({k \in 1..Len(Attempt(b).res) : Attempt(b).res[k].status = "success"})
       < 5 * Len(Attempt(b).res)
PushedBy(b) == IF AttemptFailed(b) THEN Len(ChunkSlice(b)) ELSE Len(Attempt(b).res)
RECURSIVE PushedBefore(_)
PushedBefore(b) == IF b <= 1 THEN 0 ELSE PushedBefore(b - 1) + PushedBy(b - 1)
ChunkPushed(b) == pI >= b * pChunk
OwnOutcome(call) == IF call \in pFail THEN Failure ELSE Success(<<"value", call>>)

\* C21: for every chunk whose aggregated attempt has settled, the per-call
\* reads are issued if and only if the attempt threw, returned no results or
\* had fewer than 5% successes; then every call of the chunk is issued once and
\* the chunk's part of the output holds each call's own outcome and nothing of
\* the aggregated results; otherwise no per-call read is issued and the
\* chunk's part of the output is the aggregated results unchanged.
C21_FallbackRule ==
  pPc # "threw" /\
  \A b \in AttemptedChunks :
    IF AttemptFailed(b)
    THEN /\ \A k \in 1..Len(ChunkSlice(b)) :
              Cardinality({i \in LogAt("issue", "direct", b) : pLog[i].k = k}) = 1
         /\ Cardinality(LogAt("issue", "direct", b)) = Len(ChunkSlice(b))
         /\ ChunkPushed(b) =>
              \A k \in 1..Len(ChunkSlice(b)) :
                /\ pSrc[PushedBefore(b) + k].how = "direct"
                /\ pOut[PushedBefore(b) + k] = OwnOutcome(ChunkSlice(b)[k])
    ELSE /\ LogAt("issue", "direct", b) = {}
         /\ ChunkPushed(b)
         /\ \A k \in 1..Len(Attempt(b).res) :
              /\ pSrc[PushedBefore(b) + k].how # "direct"
              /\ pOut[PushedBefore(b) + k] = Attempt(b).res[k]

\* a probe is done whose aggregated attempt on a slice of LongCalls calls
\* reported one success (fewer than 5%) and whose output holds the outcomes of
\* the per-call reads
C21_Witness ==
  /\ pPc = "done" /\ pChunk = Len(pCalls) /\ IsLongSlice(pCalls)
  /\ 1 \in AttemptedChunks
  /\ Cardinality({k \in 1..Len(Attempt(1).res) : Attempt(1).res[k].status = "success"}) = 1
  /\ AttemptFailed(1) /\ pFail = {1}
  /\ pOut[1] = Failure /\ pOut[2] = Success(<<"value", 2>>)
\* an aggregated result with exactly 5% successes is used unchanged
C21_AtThreshold ==
  /\ pPc = "done" /\ 1 \in AttemptedChunks /\ Len(Attempt(1).res) = 20
  /\ Cardinality({k \in 1..Len(Attempt(1).res) : Attempt(1).res[k].status = "success"}) = 1
  /\ ~AttemptFailed(1) /\ pOut[1] = Failure /\ pSrc[1].how = "multicall"
\* ---------------------------------------------------------- claim C22
\* the read issued at position j of the log has settled before position i
SettledBefore(j, i) ==
  \E m \in (j + 1)..(i - 1) :
    /\ pLog[m].e = "settle" /\ pLog[m].how = pLog[j].how
    /\ pLog[m].chunk = pLog[j].chunk /\ pLog[m].k = pLog[j].k
IssuePositions == {i \in 1..Len(pLog) : pLog[i].e = "issue"}

\* C22: whenever a read of a chunk is issued, aggregated or per-call, every
\* read of every earlier chunk, its per-call reads included, has settled.
C22_ChunksInTurn ==
  \A i \in IssuePositions : \A j \in IssuePositions :
    pLog[j].chunk < pLog[i].chunk => SettledBefore(j, i)

\* a probe of three chunks is done whose first and second chunk fell back to
\* per-call reads
C22_Witness ==
  /\ pPc = "done" /\ Len(pCalls) = 3 /\ pChunk = 1
  /\ LogAt("issue", "direct", 1) # {} /\ LogAt("issue", "direct", 2) # {}
  /\ LogAt("issue", "aggregated", 3) # {}
\* ---------------------------------------------------------- claim C23
\* the calls of batch b, and the positions (from 0) of the calls whose pool is
\* discovered: the pool exists and its existence read succeeds
CallsOfBatch(b) == batchCalls(streamBatches(sList)[b])
KeyOf(c) == <<c.args[1][1], c.args[2][1], c.args[3]>>
Discovered(calls) ==
  {idx \in 0..(Len(calls) - 1) : KeyOf(calls[idx + 1]) \in sPools \ sFailGet}
LoggedBefore(i, e, b, idx) ==
  \E j \in 1..(i - 1) : sLog[j].e = e /\ sLog[j].batch = b /\ sLog[j].idx = idx
PoolLines == SelectSeq(sLines, IsPoolLine)

\* C23: when the existence reads of a batch are issued, the state of every pool
\* discovered in the earlier batches has been read and, where its three state
\* reads succeeded, its record has been emitted; a record is emitted only for a
\* pool whose state was read with all three reads succeeding; no (pair, fee) is
\* emitted twice.
C23_BatchByBatch ==
  /\ \A i \in 1..Len(sLog) :
       sLog[i].e = "existence" =>
         \A b \in 1..(sLog[i].batch - 1) :
           LET calls == CallsOfBatch(b) IN
           \A idx \in Discovered(calls) :
             /\ LoggedBefore(i, "state", b, idx)
             /\ StreamEmits(calls[idx + 1]) => LoggedBefore(i, "emit", b, idx)
  /\ \A i \in 1..Len(sLog) :
       sLog[i].e = "emit" =>
         /\ LoggedBefore(i, "state", sLog[i].batch, sLog[i].idx)
         /\ StreamEmits(CallsOfBatch(sLog[i].batch)[sLog[i].idx + 1])
         /\ ~LoggedBefore(i, "emit", sLog[i].batch, sLog[i].idx)
  /\ Len(PoolLines) = LogCount("emit")
  /\ \A i, j \in 1..Len(PoolLines) :
       (i # j) => ~(/\ {PoolLines[i].token0, PoolLines[i].token1}
                         = {PoolLines[j].token0, PoolLines[j].token1}
                    /\ PoolLines[i].fee = PoolLines[j].fee)

\* the existence reads of the second batch were issued after two pools of the
\* first batch were emitted, and a pool of the second batch was emitted
C23_Witness ==
  /\ sPc = "done" /\ LogCount("existence") = 2 /\ LogCount("emit") = 3
  /\ \E i \in 1..Len(sLog) :
       /\ sLog[i].e = "existence" /\ sLog[i].batch = 2
       /\ Cardinality({j \in 1..(i - 1) : sLog[j].e = "emit"}) = 2
\* ---------------------------------------------------------- claim C24
\* what the result carries: the result of a wrapped success, nothing for a
\* wrapped failure, else the value itself
Carried(obj) ==
  IF "status" \in DOMAIN obj THEN (IF obj.status = "success" THEN obj.result ELSE Null)
  ELSE obj
\* the string that stands for the address: the carried string, or the first
\* element of a carried tuple
Candidate(obj) ==
  IF Carried(obj).t = "string" THEN Carried(obj)
  ELSE IF Carried(obj).t = "array" /\ Len(Carried(obj).v) > 0 /\ Carried(obj).v[1].t = "string"
       THEN Carried(obj).v[1]
  ELSE Null
Malformed(obj) == Candidate(obj) = Null \/ Candidate(obj).len < 42
IsZeroAddress(str) == str.t = "string" /\ str.len = 42 /\ str.v[1] = 0

\* C24 as stated: unwrapAddress does not throw; it returns null for a failure,
\* a malformed payload and the all-zero address, and the contained address in
\* every other case.
C24_UnwrapAddress ==
  xPc = "done" =>
    /\ xOut.ok
    /\ IF Malformed(xObj) \/ IsZeroAddress(Candidate(xObj)) THEN xOut.value = Null
       ELSE xOut.value = Candidate(xObj)

\* C24 (amended): unwrapAddress does not throw; it returns null for a failure
\* and a malformed payload, and the contained address in every other case, the
\* all-zero address included; its caller pushes no found entry for null and for
\* the all-zero address, and one entry with the address otherwise.
C24_UnwrapAddressKeepsZero ==
  xPc = "done" =>
    /\ xOut.ok
    /\ IF Malformed(xObj) THEN xOut.value = Null ELSE xOut.value = Candidate(xObj)
    /\ IF Malformed(xObj) \/ IsZeroAddress(Candidate(xObj)) THEN xFound = <<>>
       ELSE Len(xFound) = 1 /\ xFound[1].pool = Candidate(xObj).v

\* a wrapped success carrying a tuple whose first element is the all-zero
\* address was unwrapped to that address, and the caller pushed nothing
C24_Witness ==
  /\ xPc = "done" /\ xObj = Success(Arr(<<Str(ZeroAddress), Num(1)>>))
  /\ xOut = Ok(Str(ZeroAddress)) /\ xFound = <<>>
\* a bare short string and a wrapped failure unwrap to null
C24_ShortCase == xPc = "done" /\ xObj = ShortStr(41) /\ xOut = Ok(Null)
\* ---------------------------------------------------------- claim C25
TicksProduced == mTickLower # Null /\ mTickUpper # Null
ValidRange ==
  /\ mTickLower.v < mTickUpper.v
  /\ mTickLower.v % mPool.spacing = 0 /\ mTickUpper.v % mPool.spacing = 0
InvalidRangeShown ==
  mTxErr \in {ErrText("Invalid range: min tick must be below max tick"),
              ErrText("Invalid range: ticks must align to spacing")}
\* a transaction is sent only with valid ticks, and the mint carries them
SentOnlyIfValid ==
  mSent # <<>> =>
    /\ TicksProduced /\ ValidRange
    /\ \A i \in 1..Len(mSent) :
         mSent[i].tx = "mint" =>
           mSent[i].tickLower = mTickLower.v /\ mSent[i].tickUpper = mTickUpper.v

C25_SentCase ==
  /\ mPc = "added" /\ mSource = "percent" /\ Len(mSent) = 2 /\ mSent[2].tx = "mint"
\* both ticks clamped to the same limit: min tick not below max tick
C25_InvertedCase ==
  /\ mPc = "added" /\ mTickLower = mTickUpper /\ TicksProduced
  /\ mTxErr = ErrText("Invalid range: min tick must be below max tick")
\* ---------------------------------------------------------- claim C26
\* the run issued for the current inputs: the last one
IsCurrentRun(i) == i = Len(hRuns) /\ hRuns[i].inputs = hInputs
\* a run that was issued for earlier inputs settles in this step
StaleSettles ==
  \E i \in 1..Len(hRuns) :
    /\ i < Len(hRuns) /\ hRuns[i].pending /\ ~hRuns'[i].pending
NewRunStarts == Len(hRuns') > Len(hRuns)

\* C26: a response to a request issued for earlier inputs never sets amountOut
\* or error; whenever amountOut is non-null it was set by the request issued
\* for the current inputs; and amountOut is null after the start of every run.
C26_NoStaleQuote ==
  /\ [](hPc = "live" =>
          /\ hAmountOut # Null => (hOutOf # 0 /\ IsCurrentRun(hOutOf))
          /\ hError # Null => (hErrOf # 0 /\ IsCurrentRun(hErrOf)))
  /\ [][StaleSettles => UNCHANGED <<hAmountOut, hError>>]_vars
  /\ [][NewRunStarts => hAmountOut' = Null]_vars

\* the response of the first request arrived after the inputs had changed and
\* after the second request had set amountOut, which is still that of the
\* second request
C26_Witness ==
  /\ Len(hRuns) = 2 /\ ~hRuns[1].pending /\ ~hRuns[2].pending
  /\ hRuns[1].inputs.fee # hRuns[2].inputs.fee
  /\ hookStart(hRuns[1].inputs).does = "await"
  /\ hAmountOut # Null /\ hOutOf = 2 /\ hLoading = FALSE
\* ---------------------------------------------------------- claim C27
\* a run of findRoute started for the current inputs has not returned yet
RunInFlight == \E k \in 1..Len(rRuns) : rRuns[k].active

\* C27: whenever no route-finding run for the current inputs is in flight
\* (the latest run has completed or returned early), routing is false, also
\* when an in-flight run was superseded by inputs whose run returns early.
C27_RoutingCleared == (rPc = "live" /\ ~RunInFlight) => rRouting = FALSE
\* ---------------------------------------------------------- claim C28
\* run i was superseded: a later run was started, or the inputs are no longer
\* the ones it was started for
Superseded(i) ==
  \/ i < Len(rRuns)
  \/ <<rRuns[i].tokenIn, rRuns[i].tokenOut, rRuns[i].wethAddress>> # <<rTokenIn, rTokenOut, rWeth>>
\* a superseded run returns in this step
SupersededReturns ==
  \E i \in 1..Len(rRuns) : Superseded(i) /\ rRuns' = withoutRun(rRuns, i)
RouteEndsMatch ==
  rRoute # Null =>
    (rRoute.tokens[1] = rTokenIn /\ rRoute.tokens[Len(rRoute.tokens)] = rTokenOut)

\* C28: a superseded run of findRoute writes neither route nor fee nor the
\* routing error when it returns, and whenever route is non-null its first
\* and last tokens are the current tokenIn and tokenOut.
C28_NoStaleRoute ==
  /\ []RouteEndsMatch
  /\ [][SupersededReturns => UNCHANGED <<rRoute, rFee, rPoolErr>>]_vars

\* a superseded run returned last, after the run for the current inputs had
\* stored its route
C28_Witness ==
  /\ rLast.ran /\ ~rLast.active /\ rLast.tokenOut # rTokenOut
  /\ rRoute # Null /\ rRuns = <<>>
\* ---------------------------------------------------------- claim C29
\* what a check for the current inputs finds on the chain
CurrentlyEnough ==
  /\ IsSet(kTokenIn) /\ kAmountInWei > 0
  /\ kChain[kTokenIn].erc20 >= kAmountInWei /\ kChain[kTokenIn].permit2 >= kAmountInWei

\* C29: hasAllowance is true only if the check for the current tokenIn and
\* amountInWei found both the ERC20 and the Permit2 allowance >= amountInWei; a
\* check started for earlier inputs never makes it true for the current ones.
C29_AllowanceCurrent == (kPc = "live" /\ kHasAllowance) => CurrentlyEnough
\* ---------------------------------------------------------- claim C30
QuoteAvailable == uPc = "done" /\ uAmountOut # Null

\* C30: whenever a route is set and a quote is available, the fee the quote
\* was obtained with equals route.fees[0], the first-hop fee of the swap path,
\* also when the initial fee came from the URL.
C30_QuoteFeeIsRouteFee == (QuoteAvailable /\ uPath # Null) => uFee = uPath.fees[1]

=============================================================================
